---- MODULE Spec2Model ----
(***************************************************************************)
(* Verification model of the pic-scale-safe resampling core: the weight    *)
(* table builder, the fixed-point and floating convolution engines, the    *)
(* narrowing conversions and the resize drivers with their entry points.   *)
(*                                                                         *)
(* Real-valued quantities of the code (f32) are carried as exact rationals *)
(* numerator/denominator; the integer results that depend on them (bounds, *)
(* kernel size, quantized weights) coincide with the binary32 results on   *)
(* every size pair the model enumerates.                                   *)
(***************************************************************************)
EXTENDS Integers, Sequences, FiniteSets, TLC

VARIABLES call, pc, working_slice_size, transient, result, prev, passes,
          plan, sums, narrowed, tasks, writes

vars == <<call, pc, working_slice_size, transient, result, prev, passes,
          plan, sums, narrowed, tasks, writes>>

(***************************************************************************)
(* Bounds of the model.                                                    *)
(***************************************************************************)
MaxPlanSize == 8

\* how far beyond the sample range the accumulated sums of the narrowing
\* specification reach, in sample units
NarrowOver == 2

\* width of the machine word, in bits
USIZE_BITS == 12

\* largest width and height of the exhaustively enumerated images
MaxDim == 2

\* largest number of rows (and so of tasks) of a data-parallel pass
MaxTasks == 5

\* largest number of pixels of the images given to the alpha helpers
MaxAlphaPixels == 3

\* largest axis length of the rows built from given kernel evaluations
MaxKernelPlan == 3

\* remainders enumerated on each side of a rounding threshold
DivNeighbourhood == 1

(***************************************************************************)
(* Arithmetic helpers.                                                     *)
(***************************************************************************)
Min(a, b) == IF a < b THEN a ELSE b

Max(a, b) == IF a > b THEN a ELSE b

Abs(a) == IF a < 0 THEN -a ELSE a

Pow2(n) == 2 ^ n

\* floor(n / d) for d > 0
Floor(n, d) == n \div d

\* ceil(n / d) for d > 0
Ceil(n, d) == -((-n) \div d)

\* f32::round: n / d rounded to the nearest integer, halves away from zero (d > 0)
Round(n, d) == IF n >= 0 THEN (2 * n + d) \div (2 * d)
               ELSE -((2 * (-n) + d) \div (2 * d))

RECURSIVE SumSeq(_)
SumSeq(s) == IF s = <<>> THEN 0 ELSE Head(s) + SumSeq(Tail(s))

None == [kind |-> "none"]

(***************************************************************************)
(* Kernel registry (sampler.rs).                                           *)
(***************************************************************************)
\* box_weight: the constant 1
box_weight(x) == 1

\* min_kernel_size of the filter of a resampling function
min_kernel_size(function) == 2

is_resizable_kernel(function) == TRUE

is_area_filter(function) == function = "Area"

(***************************************************************************)
(* Weight table builder (compute_weights.rs).  A plan holds, per output    *)
(* index, the bounds (start, size), kernel_size weight numerators and the  *)
(* denominator they share: weights[i][k] / den[i].                         *)
(***************************************************************************)
\* base_size = round(filter_base_size * filter_scale_cutoff)
base_size(function, in_size, out_size) ==
    LET filter_base_size == 2 * min_kernel_size(function)
    IN  IF is_resizable_kernel(function) /\ in_size > out_size
        THEN Round(filter_base_size * in_size, out_size)
        ELSE filter_base_size

\* numerator of center_x over the denominator 2 * out_size
center_x2(i, in_size, out_size) ==
    Min((2 * i + 1) * in_size, 2 * out_size * in_size)

general_start(function, i, in_size, out_size) ==
    Max(Floor(center_x2(i, in_size, out_size)
              - base_size(function, in_size, out_size) * out_size, 2 * out_size), 0)

\* general_end without the clamp to in_size
general_end_unclamped(function, i, in_size, out_size) ==
    Min(Ceil(center_x2(i, in_size, out_size)
             + base_size(function, in_size, out_size) * out_size, 2 * out_size),
        general_start(function, i, in_size, out_size)
            + base_size(function, in_size, out_size))

general_end(function, i, in_size, out_size) ==
    Min(Min(Ceil(center_x2(i, in_size, out_size)
                 + base_size(function, in_size, out_size) * out_size, 2 * out_size),
            in_size),
        general_start(function, i, in_size, out_size)
            + base_size(function, in_size, out_size))

\* raw weights of output i, one per tap of [start, end)
general_local_filters(function, i, in_size, out_size) ==
    [k \in 1..(general_end(function, i, in_size, out_size)
               - general_start(function, i, in_size, out_size)) |-> box_weight(k)]

\* the tail of one iteration of the general path: the bound and, only when
\* weights_sum # 0, the first `size` weights times 1 / weights_sum; the table
\* is created zeroed and there is no other branch
normalized_row(local_filters, start, size, kernel_size) ==
    LET weights_sum == SumSeq(local_filters)
    IN  [start |-> start,
         size |-> size,
         den |-> IF weights_sum # 0 THEN weights_sum ELSE 1,
         weights |-> [k \in 1..kernel_size |->
                        IF weights_sum # 0 /\ k <= size THEN local_filters[k] ELSE 0]]

\* general_row normalising by the table stride instead of the sum of the weights
general_row_by_kernel_size(function, i, in_size, out_size) ==
    LET kernel_size == base_size(function, in_size, out_size)
        start == general_start(function, i, in_size, out_size)
        size == general_end(function, i, in_size, out_size) - start
        local_filters == general_local_filters(function, i, in_size, out_size)
    IN  [start |-> start,
         size |-> size,
         den |-> kernel_size,
         weights |-> [k \in 1..kernel_size |->
                        IF k <= size THEN local_filters[k] ELSE 0]]

\* row i of the general path: weights are written only when weights_sum # 0
general_row(function, i, in_size, out_size) ==
    LET start == general_start(function, i, in_size, out_size)
    IN  normalized_row(general_local_filters(function, i, in_size, out_size), start,
                       general_end(function, i, in_size, out_size) - start,
                       base_size(function, in_size, out_size))

\* area_row taking the fractional part of fx whatever its sign
area_row_fraction_always(i, in_size, out_size) ==
    LET sx == Floor(i * in_size, out_size)
        fx == (i + 1) * in_size - (sx + 1) * out_size      \* over in_size
        dx == fx % in_size                                  \* over in_size
        weight0 == in_size - dx
        weight1 == dx
        start == Max(sx, 0)
        size == Min(Min(sx + 2, in_size), start + 2) - start
        weights_sum == weight0 + (IF size > 1 THEN weight1 ELSE 0)
    IN  [start |-> start,
         size |-> size,
         den |-> IF weights_sum # 0 THEN weights_sum ELSE 1,
         weights |-> IF weights_sum # 0
                     THEN <<weight0, IF size > 1 THEN weight1 ELSE 0>>
                     ELSE <<1, 0>>]

\* row i of the area path (INTER_AREA up scaling), kernel_size = 2
area_row(i, in_size, out_size) ==
    LET sx == Floor(i * in_size, out_size)
        fx == (i + 1) * in_size - (sx + 1) * out_size      \* over in_size
        dx == IF fx <= 0 THEN 0 ELSE fx % in_size           \* over in_size
        weight0 == in_size - dx
        weight1 == dx
        start == Max(sx, 0)
        size == Min(Min(sx + 2, in_size), start + 2) - start
        weights_sum == weight0 + (IF size > 1 THEN weight1 ELSE 0)
    IN  [start |-> start,
         size |-> size,
         den |-> IF weights_sum # 0 THEN weights_sum ELSE 1,
         weights |-> IF weights_sum # 0
                     THEN <<weight0, IF size > 1 THEN weight1 ELSE 0>>
                     ELSE <<1, 0>>]

generate_weights(function, in_size, out_size) ==
    LET is_area == is_area_filter(function) /\ in_size < out_size
    IN  [kernel_size |-> IF is_area THEN 2 ELSE base_size(function, in_size, out_size),
         aligned_size |-> IF is_area THEN 2 ELSE base_size(function, in_size, out_size),
         area |-> is_area,
         rows |-> [j \in 1..out_size |->
                     IF is_area THEN area_row(j - 1, in_size, out_size)
                     ELSE general_row(function, j - 1, in_size, out_size)]]

(***************************************************************************)
(* Quantized plan and narrowing conversions.                               *)
(***************************************************************************)
PRECISION == 15

ROUNDING_CONST == Pow2(PRECISION - 1)

I16_MAX == 32767

I16_MIN == -32768

\* one weight n / d as i16: round(weight * 2^PRECISION), narrowed by the cast
approximate_i16(n, d) ==
    Min(Max(Round(n * Pow2(PRECISION), d), I16_MIN), I16_MAX)

\* FilterWeights<f32> -> FilterWeights<i16>: every row gets its quantized weights
numerical_approximation_i16(fw) ==
    [fw EXCEPT !.rows =
        [j \in DOMAIN fw.rows |->
            [start |-> fw.rows[j].start,
             size |-> fw.rows[j].size,
             den |-> fw.rows[j].den,
             weights |-> [k \in DOMAIN fw.rows[j].weights |->
                            approximate_i16(fw.rows[j].weights[k], fw.rows[j].den)]]]]

\* largest sample value of the destination type at a bit depth
max_colors(T, bit_depth) == IF T = "u8" THEN 255 ELSE Pow2(bit_depth) - 1

\* saturate_narrow without the lower clamp
saturate_narrow_no_floor(v, T, bit_depth) ==
    Min(Floor(v, Pow2(PRECISION)), max_colors(T, bit_depth))

\* SaturateNarrow: arithmetic shift right by PRECISION, then clamp
saturate_narrow(v, T, bit_depth) ==
    Min(Max(Floor(v, Pow2(PRECISION)), 0), max_colors(T, bit_depth))

\* RoundingBackend::cpu_round for n / d >= 0.  The native backend is
\* f32::round; the portable one, ((x + EPSILON) + SHIFTER) - SHIFTER, rounds
\* halves to the even neighbour except 0.5, which it takes to 1.
cpu_round(n, d, native) ==
    IF native THEN Round(n, d)
    ELSE IF (2 * n) % d = 0 /\ ((2 * n) \div d) % 2 = 1
         THEN LET k == Floor(n, d)
              IN  IF k = 0 THEN 1 ELSE IF k % 2 = 0 THEN k ELSE k + 1
         ELSE Floor(2 * n + d, 2 * d)

\* MixedStorage::to_mixed for integer T: cpu_round().max(0).min(max).  A
\* negative sum rounds to a value <= 0 under either backend, so max(0) gives 0.
to_mixed(n, d, T, bit_depth, native) ==
    IF n < 0 THEN 0
    ELSE Min(Max(cpu_round(n, d, native), 0), max_colors(T, bit_depth))

(***************************************************************************)
(* Convolution engines.  Buffers are sequences; a code offset o is the     *)
(* element o + 1.                                                          *)
(***************************************************************************)
\* sum of weights[w_off + j] * src[base + (j - 1) * stride], j = 1..n
RECURSIVE dot(_, _, _, _, _, _)
dot(weights, w_off, src, base, stride, n) ==
    IF n <= 0 THEN 0
    ELSE weights[w_off + n] * src[base + (n - 1) * stride + 1]
         + dot(weights, w_off, src, base, stride, n - 1)

\* fixed_point_horizontal.rs: one row, accumulators start at ROUNDING_CONST
convolve_row_handler_fixed_point(src, fw, CHANNELS, T, bit_depth) ==
    [o \in 1..(Len(fw.rows) * CHANNELS) |->
        LET bounds == fw.rows[((o - 1) \div CHANNELS) + 1]
            c == (o - 1) % CHANNELS
            px == bounds.start * CHANNELS
        IN  saturate_narrow(ROUNDING_CONST
                              + dot(bounds.weights, 0, src, px + c, CHANNELS, bounds.size),
                            T, bit_depth)]

\* fixed_point_horizontal.rs: four rows per weight iteration
convolve_row_handler_fixed_point_4(src, src_stride, dst_stride, fw, CHANNELS, T, bit_depth) ==
    [o \in 1..(4 * dst_stride) |->
        LET row == (o - 1) \div dst_stride
            bounds == fw.rows[(((o - 1) % dst_stride) \div CHANNELS) + 1]
            c == ((o - 1) % dst_stride) % CHANNELS
            px == bounds.start * CHANNELS
        IN  saturate_narrow(ROUNDING_CONST
                              + dot(bounds.weights, 0, src, px + src_stride * row + c,
                                    CHANNELS, bounds.size),
                            T, bit_depth)]

\* floating_point_horizontal.rs: one row, accumulators start at 0
convolve_row_handler_floating_point(src, fw, CHANNELS, T, bit_depth, native) ==
    [o \in 1..(Len(fw.rows) * CHANNELS) |->
        LET bounds == fw.rows[((o - 1) \div CHANNELS) + 1]
            c == (o - 1) % CHANNELS
        IN  to_mixed(dot(bounds.weights, 0, src, bounds.start * CHANNELS + c,
                         CHANNELS, bounds.size),
                     bounds.den, T, bit_depth, native)]

\* floating_point_horizontal.rs: four rows; the weights are iterated as
\* take(size).skip(1).enumerate(), so weight j + 1 meets pixel start_x + j
convolve_row_handler_floating_point_4(src, src_stride, dst_stride, fw, CHANNELS, T, bit_depth, native) ==
    [o \in 1..(4 * dst_stride) |->
        LET row == (o - 1) \div dst_stride
            bounds == fw.rows[(((o - 1) % dst_stride) \div CHANNELS) + 1]
            c == ((o - 1) % dst_stride) % CHANNELS
        IN  to_mixed(dot(bounds.weights, 1, src,
                         bounds.start * CHANNELS + src_stride * row + c,
                         CHANNELS, bounds.size - 1),
                     bounds.den, T, bit_depth, native)]

\* the row dispatch of both engines: chunks of four rows go to handle_row_4,
\* the remaining rows to handle_row
convolve_row(engine, image_store, image_size, fw, destination_size, CHANNELS, T, bit_depth, native) ==
    LET src_stride == image_size.width * CHANNELS
        dst_stride == destination_size.width * CHANNELS
        blocks == image_size.height \div 4
        rows4 == [b \in 1..blocks |->
                    LET src == SubSeq(image_store, (b - 1) * 4 * src_stride + 1,
                                      b * 4 * src_stride)
                    IN  IF engine = "fixed"
                        THEN convolve_row_handler_fixed_point_4(
                                 src, src_stride, dst_stride, fw, CHANNELS, T, bit_depth)
                        ELSE convolve_row_handler_floating_point_4(
                                 src, src_stride, dst_stride, fw, CHANNELS, T, bit_depth,
                                 native)]
        rows1 == [r \in (4 * blocks + 1)..image_size.height |->
                    LET src == SubSeq(image_store, (r - 1) * src_stride + 1, r * src_stride)
                    IN  IF engine = "fixed"
                        THEN convolve_row_handler_fixed_point(src, fw, CHANNELS, T, bit_depth)
                        ELSE convolve_row_handler_floating_point(
                                 src, fw, CHANNELS, T, bit_depth, native)]
    IN  [o \in 1..(dst_stride * destination_size.height) |->
            LET row == (o - 1) \div dst_stride
            IN  IF row < 4 * blocks
                THEN rows4[(row \div 4) + 1][((o - 1) % (4 * dst_stride)) + 1]
                ELSE rows1[row + 1][((o - 1) % dst_stride) + 1]]

\* the tiles one loop `while cx + reach < dst_width { handler(cx); cx += step }` runs
RECURSIVE tile_loop(_, _, _, _, _, _)
tile_loop(handler, cx, reach, step, lanes, dst_width) ==
    IF cx + reach < dst_width
    THEN <<[handler |-> handler, cx |-> cx, lanes |-> lanes]>>
         \o tile_loop(handler, cx + step, reach, step, lanes, dst_width)
    ELSE <<>>

\* column_handler_fixed_point: the tiles of one destination row, in call order;
\* a direct-buffer tile covers `lanes` samples from sample cx * COMPONENTS, the
\* others `lanes` pixels from pixel cx
column_tiles_fixed_point(COMPONENTS, dst_width) ==
    LET direct == COMPONENTS < 3
        step64 == 64 \div COMPONENTS
        t64 == IF direct /\ 64 % COMPONENTS = 0
               THEN tile_loop("direct_buffer", 0, step64, step64, 64, dst_width)
               ELSE <<>>
        cx64 == Len(t64) * step64
        step32 == 32 \div COMPONENTS
        t32 == IF direct /\ 32 % COMPONENTS = 0
               THEN tile_loop("direct_buffer", cx64, step32, step32, 32, dst_width)
               ELSE <<>>
        cx32 == cx64 + Len(t32) * step32
        t6 == IF COMPONENTS = 4 \/ COMPONENTS = 3
              THEN tile_loop("pixels", cx32, 6, 6, 6, dst_width)
              ELSE <<>>
        cx6 == cx32 + Len(t6) * 6
        t4 == tile_loop("pixels", cx6, 4, 4, 4, dst_width)
        cx4 == cx6 + Len(t4) * 4
    IN  t64 \o t32 \o t6 \o t4 \o tile_loop("pixels", cx4, 0, 1, 1, dst_width)

\* column_handler_floating_point: four-pixel tiles, then single pixels
column_tiles_floating_point(COMPONENTS, dst_width) ==
    LET t4 == tile_loop("pixels", 0, 4, 4, 4, dst_width)
    IN  t4 \o tile_loop("pixels", Len(t4) * 4, 0, 1, 1, dst_width)

\* first sample offset and number of samples a tile writes
tile_first(tile, COMPONENTS) == tile.cx * COMPONENTS

\* tile_samples taking the lanes of every tile for pixels
tile_samples_as_pixels(tile, COMPONENTS) == tile.lanes * COMPONENTS

tile_samples(tile, COMPONENTS) ==
    IF tile.handler = "direct_buffer" THEN tile.lanes ELSE tile.lanes * COMPONENTS

\* convolve_column_handler_fixed_point{,_4,_6}: the sample at row offset x
column_sample_fixed_point(src, src_stride, bounds, x, T, bit_depth) ==
    saturate_narrow(ROUNDING_CONST
                      + dot(bounds.weights, 0, src, src_stride * bounds.start + x,
                            src_stride, bounds.size),
                    T, bit_depth)

\* convolve_column_handler_fixed_point_direct_buffer_4: the store starts at
\* J::default(), takes filter[0] with row bounds.start, and the remaining
\* weights as take(size).skip(1).enumerate(): weight j + 1 with row start + j
column_sample_direct_buffer(src, src_stride, bounds, x, T, bit_depth) ==
    saturate_narrow(0 + bounds.weights[1] * src[src_stride * bounds.start + x + 1]
                      + dot(bounds.weights, 1, src, src_stride * bounds.start + x,
                            src_stride, bounds.size - 1),
                    T, bit_depth)

\* convolve_column_handler_floating_point{,_4}: the sample at row offset x
column_sample_floating_point(src, src_stride, bounds, x, T, bit_depth, native) ==
    to_mixed(dot(bounds.weights, 0, src, src_stride * bounds.start + x,
                 src_stride, bounds.size),
             bounds.den, T, bit_depth, native)

\* source rows the handler of a column tile reads for one destination row:
\* the direct-buffer handler takes row start for filter[0] and rows start + j
\* for the size - 1 weights after it, the others rows start .. start + size - 1
column_rows_read(engine, tile, bounds) ==
    IF engine = "fixed" /\ tile.handler = "direct_buffer"
    THEN {bounds.start} \cup {bounds.start + j : j \in 0..(bounds.size - 2)}
    ELSE {bounds.start + j : j \in 0..(bounds.size - 1)}

\* source pixels a row handler reads for one destination pixel: the four-row
\* floating handler pairs the size - 1 weights after the first with pixels
\* start_x + j, the others read pixels start .. start + size - 1
row_pixels_read(engine, rows, bounds) ==
    IF engine = "float" /\ rows = 4
    THEN {bounds.start + j : j \in 0..(bounds.size - 2)}
    ELSE {bounds.start + j : j \in 0..(bounds.size - 1)}

\* the tiles applied in order to one destination row
RECURSIVE apply_tiles(_, _, _, _, _, _, _, _, _, _)
apply_tiles(engine, tiles, dst, src, src_stride, bounds, COMPONENTS, T, bit_depth, native) ==
    IF tiles = <<>> THEN dst
    ELSE LET tile == Head(tiles)
             first == tile_first(tile, COMPONENTS)
             written ==
                [o \in 1..Len(dst) |->
                    IF o - 1 >= first /\ o - 1 < first + tile_samples(tile, COMPONENTS)
                    THEN IF engine = "float"
                         THEN column_sample_floating_point(
                                  src, src_stride, bounds, o - 1, T, bit_depth, native)
                         ELSE IF tile.handler = "direct_buffer"
                         THEN column_sample_direct_buffer(
                                  src, src_stride, bounds, o - 1, T, bit_depth)
                         ELSE column_sample_fixed_point(
                                  src, src_stride, bounds, o - 1, T, bit_depth)
                    ELSE dst[o]]
         IN  apply_tiles(engine, Tail(tiles), written, src, src_stride, bounds,
                         COMPONENTS, T, bit_depth, native)

\* the column dispatch of both engines: one handle_column per destination row
convolve_column(engine, image_store, image_size, fw, destination, destination_size, CHANNELS, T, bit_depth, native) ==
    LET src_stride == image_size.width * CHANNELS
        dst_stride == destination_size.width * CHANNELS
        tiles == IF engine = "fixed"
                 THEN column_tiles_fixed_point(CHANNELS, destination_size.width)
                 ELSE column_tiles_floating_point(CHANNELS, destination_size.width)
        rows == [j \in 1..destination_size.height |->
                    apply_tiles(engine, tiles,
                                SubSeq(destination, (j - 1) * dst_stride + 1, j * dst_stride),
                                image_store, src_stride, fw.rows[j], CHANNELS, T,
                                bit_depth, native)]
    IN  [o \in 1..Len(destination) |->
            rows[((o - 1) \div dst_stride) + 1][((o - 1) % dst_stride) + 1]]

\* nearest_index without the half-pixel offsets
nearest_index_corner(x, src_dim, dst_dim) ==
    Max(Min(Floor(x * src_dim, dst_dim), src_dim - 1), 0)

\* ((x + 0.5) * scale - 0.5).min(clip).max(0) as usize, scale = src_dim / dst_dim
nearest_index(x, src_dim, dst_dim) ==
    LET scaled == (2 * x + 1) * src_dim - dst_dim           \* over 2 * dst_dim
        clipped == Min(scaled, 2 * dst_dim * (src_dim - 1))
        floored == Max(clipped, 0)
    IN  floored \div (2 * dst_dim)

\* resize_nearest filling a store that has the extent of the source
resize_nearest_source_extent(src, src_width, src_height, dst_width, dst_height, CHANNELS) ==
    [o \in 1..(src_width * src_height * CHANNELS) |-> src[o]]

\* resize_nearest: every destination pixel copies one source pixel
resize_nearest(src, src_width, src_height, dst_width, dst_height, CHANNELS) ==
    [o \in 1..(dst_width * dst_height * CHANNELS) |->
        LET y == (o - 1) \div (dst_width * CHANNELS)
            x == ((o - 1) % (dst_width * CHANNELS)) \div CHANNELS
            c == (o - 1) % CHANNELS
            src_x == nearest_index(x, src_width, dst_width)
            src_y == nearest_index(y, src_height, dst_height)
        IN  src[src_y * src_width * CHANNELS + src_x * CHANNELS + c + 1]]

(***************************************************************************)
(* Entry points and the resize drivers (resizer.rs, resize_fixed_point.rs, *)
(* resize_floating_point.rs).                                              *)
(***************************************************************************)
Ok(buffer) == [kind |-> "Ok", buffer |-> buffer]

Err(error) == [kind |-> "Err", error |-> error]

Panic(message) == [kind |-> "panic", message |-> message]

\* the machine word: usize is USIZE_BITS wide
USIZE_MOD == Pow2(USIZE_BITS)

\* usize::overflowing_mul
overflowing_mul(a, b) ==
    [value |-> (a * b) % USIZE_MOD, overflow |-> a * b >= USIZE_MOD]

\* the public entry points with their sample type, engine and channel count
EntryTable ==
    [resize_plane8            |-> [T |-> "u8",  engine |-> "fixed", CHANNELS |-> 1],
     resize_plane8_with_alpha |-> [T |-> "u8",  engine |-> "fixed", CHANNELS |-> 2],
     resize_rgb8              |-> [T |-> "u8",  engine |-> "fixed", CHANNELS |-> 3],
     resize_rgba8             |-> [T |-> "u8",  engine |-> "fixed", CHANNELS |-> 4],
     resize_plane16           |-> [T |-> "u16", engine |-> "float", CHANNELS |-> 1],
     resize_rgb16             |-> [T |-> "u16", engine |-> "float", CHANNELS |-> 3],
     resize_rgba16            |-> [T |-> "u16", engine |-> "float", CHANNELS |-> 4]]

Entries8 == {"resize_plane8", "resize_plane8_with_alpha", "resize_rgb8", "resize_rgba8"}

Entries16 == {"resize_plane16", "resize_rgb16", "resize_rgba16"}

\* the 16-bit entry points: `if bit_depth > 16 { return Err(..) }`
entry_check(c) ==
    IF c.entry \in Entries16 /\ c.bit_depth > 16
    THEN Err("bit depth")
    ELSE None

\* validate without the comparison of the buffer length
validate_without_length(c) ==
    IF c.CHANNELS > 4 THEN Panic("assertion failed: CHANNELS <= 4")
    ELSE IF c.CHANNELS = 0 THEN Panic("assertion failed: CHANNELS != 0")
    ELSE IF overflowing_mul(c.source_size.width, c.CHANNELS).overflow
    THEN Err("source stride overflow")
    ELSE IF overflowing_mul(c.destination_size.width, c.CHANNELS).overflow
    THEN Err("destination stride overflow")
    ELSE None

\* the checks both drivers open with, in program order; with overflow checks
\* compiled in, the unchecked product of the length comparison panics
validate(c) ==
    LET row == overflowing_mul(c.source_size.width, c.CHANNELS)
        len == overflowing_mul(row.value, c.source_size.height)
    IN  IF c.CHANNELS > 4 THEN Panic("assertion failed: CHANNELS <= 4")
        ELSE IF c.CHANNELS = 0 THEN Panic("assertion failed: CHANNELS != 0")
        ELSE IF (row.overflow \/ len.overflow) /\ c.overflow_checks
        THEN Panic("attempt to multiply with overflow")
        ELSE IF Len(c.src) # len.value
        THEN Err("source slice size does not match")
        ELSE IF overflowing_mul(c.source_size.width, c.CHANNELS).overflow
        THEN Err("source stride overflow")
        ELSE IF overflowing_mul(c.destination_size.width, c.CHANNELS).overflow
        THEN Err("destination stride overflow")
        ELSE None

same_size(c) ==
    /\ c.source_size.width = c.destination_size.width
    /\ c.source_size.height = c.destination_size.height

\* the buffer the next pass reads: the source until a pass has run
working_slice_ref == IF passes = <<>> THEN call.src ELSE transient

EntryPoint ==
    /\ pc = "call"
    /\ IF entry_check(call) # None
       THEN /\ result' = entry_check(call)
            /\ pc' = "done"
       ELSE /\ result' = result
            /\ pc' = "validate"
    /\ UNCHANGED <<call, working_slice_size, transient, prev, passes, plan,
                   sums, narrowed, tasks, writes>>

Validate ==
    /\ pc = "validate"
    /\ IF validate(call) # None
       THEN /\ result' = validate(call)
            /\ pc' = "done"
            /\ UNCHANGED working_slice_size
       ELSE /\ result' = result
            /\ pc' = "validated"
            /\ working_slice_size' = call.source_size
    /\ UNCHANGED <<call, transient, prev, passes, plan, sums, narrowed, tasks, writes>>

\* EqualSizes returning a freshly allocated (default-filled) buffer
EqualSizesDefaultFilled ==
    /\ pc = "validated"
    /\ same_size(call)
    /\ result' = Ok([o \in 1..Len(call.src) |-> 0])
    /\ pc' = "done"
    /\ UNCHANGED <<call, working_slice_size, transient, prev, passes, plan,
                   sums, narrowed, tasks, writes>>

\* `if source_size == destination_size { return Ok(src.to_vec()) }`
EqualSizes ==
    /\ pc = "validated"
    /\ same_size(call)
    /\ result' = Ok(call.src)
    /\ pc' = "done"
    /\ UNCHANGED <<call, working_slice_size, transient, prev, passes, plan,
                   sums, narrowed, tasks, writes>>

\* `if resampling_function == Nearest { .. return Ok(resized) }`
Nearest ==
    /\ pc = "validated"
    /\ ~same_size(call)
    /\ call.resampling_function = "Nearest"
    /\ result' = Ok(resize_nearest(call.src, call.source_size.width,
                                   call.source_size.height,
                                   call.destination_size.width,
                                   call.destination_size.height, call.CHANNELS))
    /\ pc' = "done"
    /\ UNCHANGED <<call, working_slice_size, transient, prev, passes, plan,
                   sums, narrowed, tasks, writes>>

\* engine_weights handing the real-valued plan to the fixed-point engine
engine_weights_unquantized(c, fw) == fw

\* the plan in the form the engine consumes
engine_weights(c, fw) ==
    IF c.engine = "fixed" THEN numerical_approximation_i16(fw) ELSE fw

\* `if working_slice_size.height != destination_size.height { .. }`
VerticalPass ==
    /\ pc = "validated"
    /\ ~same_size(call)
    /\ call.resampling_function # "Nearest"
    /\ working_slice_size.height # call.destination_size.height
    /\ LET new_size == [width |-> working_slice_size.width,
                        height |-> call.destination_size.height]
           fw == generate_weights(call.resampling_function,
                                  working_slice_size.height, new_size.height)
           zeros == [o \in 1..(new_size.width * new_size.height * call.CHANNELS) |-> 0]
       IN  /\ plan' = fw
           /\ transient' = convolve_column(call.engine, working_slice_ref,
                                           working_slice_size, engine_weights(call, fw),
                                           zeros, new_size, call.CHANNELS, call.T,
                                           call.bit_depth, call.native_round)
           /\ working_slice_size' = new_size
           /\ passes' = Append(passes, [pass |-> "vertical",
                                        in_size |-> working_slice_size.height,
                                        out_size |-> new_size.height])
    /\ pc' = "vertical_done"
    /\ UNCHANGED <<call, result, prev, sums, narrowed, tasks, writes>>

\* HorizontalPass taken straight after validation, whatever the heights
HorizontalPassFirst ==
    /\ pc = "validated"
    /\ ~same_size(call)
    /\ call.resampling_function # "Nearest"
    /\ working_slice_size.width # call.destination_size.width
    /\ LET new_size == [width |-> call.destination_size.width,
                        height |-> working_slice_size.height]
           fw == generate_weights(call.resampling_function,
                                  working_slice_size.width, new_size.width)
       IN  /\ plan' = fw
           /\ transient' = convolve_row(call.engine, working_slice_ref,
                                        working_slice_size, engine_weights(call, fw),
                                        new_size, call.CHANNELS, call.T,
                                        call.bit_depth, call.native_round)
           /\ working_slice_size' = new_size
           /\ passes' = Append(passes, [pass |-> "horizontal",
                                        in_size |-> working_slice_size.width,
                                        out_size |-> new_size.width])
    /\ pc' = "horizontal_done"
    /\ UNCHANGED <<call, result, prev, sums, narrowed, tasks, writes>>

\* `if working_slice_size.width != destination_size.width { .. }`
HorizontalPass ==
    /\ \/ pc = "vertical_done"
       \/ /\ pc = "validated"
          /\ ~same_size(call)
          /\ call.resampling_function # "Nearest"
          /\ working_slice_size.height = call.destination_size.height
    /\ working_slice_size.width # call.destination_size.width
    /\ LET new_size == [width |-> call.destination_size.width,
                        height |-> working_slice_size.height]
           fw == generate_weights(call.resampling_function,
                                  working_slice_size.width, new_size.width)
       IN  /\ plan' = fw
           /\ transient' = convolve_row(call.engine, working_slice_ref,
                                        working_slice_size, engine_weights(call, fw),
                                        new_size, call.CHANNELS, call.T,
                                        call.bit_depth, call.native_round)
           /\ working_slice_size' = new_size
           /\ passes' = Append(passes, [pass |-> "horizontal",
                                        in_size |-> working_slice_size.width,
                                        out_size |-> new_size.width])
    /\ pc' = "horizontal_done"
    /\ UNCHANGED <<call, result, prev, sums, narrowed, tasks, writes>>

\* the closing assert_eq! on the length and `Ok(transient)`
Return ==
    /\ \/ pc = "horizontal_done"
       \/ /\ pc = "vertical_done"
          /\ working_slice_size.width = call.destination_size.width
    /\ result' = IF Len(transient) = call.destination_size.width
                                       * call.destination_size.height * call.CHANNELS
                 THEN Ok(transient)
                 ELSE Panic("assertion failed: transient.len()")
    /\ pc' = "done"
    /\ UNCHANGED <<call, working_slice_size, transient, prev, passes, plan,
                   sums, narrowed, tasks, writes>>

\* the caller hands the same 8-bit image and sizes to the floating driver
\* (resize_floating_point::<u8, f32, f32, CHANNELS>)
Recall ==
    /\ pc = "done"
    /\ prev = None
    /\ call.entry \in Entries8
    /\ result.kind = "Ok"
    /\ prev' = [call |-> call, result |-> result]
    /\ \E native \in BOOLEAN :
         call' = [call EXCEPT !.entry = "resize_floating_point",
                              !.engine = "float",
                              !.native_round = native]
    /\ pc' = "validate"
    /\ result' = None
    /\ working_slice_size' = None
    /\ transient' = <<>>
    /\ passes' = <<>>
    /\ plan' = None
    /\ UNCHANGED <<sums, narrowed, tasks, writes>>

(***************************************************************************)
(* Specification of the resize calls: one call per behaviour, on a small   *)
(* image, followed for the 8-bit entry points by the same call on the      *)
(* floating driver.                                                        *)
(***************************************************************************)
GenericEntries == {"resize_fixed_point", "resize_floating_point"}

Functions == {"Box", "Area", "Nearest"}

Patterns == {"constant", "ramp"}

\* source sample at offset o
sample(pattern, o) == IF pattern = "constant" THEN 77 ELSE (37 * o + 5) % 256

source_buffer(pattern, n) == [i \in 1..n |-> sample(pattern, i - 1)]

Size(width, height) == [width |-> width, height |-> height]

\* the narrowest image on which every tile width of the column pass runs:
\* direct buffers of 32 samples for 1 and 2 components, 6 pixels for 3 and 4
WideWidth(CHANNELS) ==
    IF CHANNELS = 1 THEN 33 ELSE IF CHANNELS = 2 THEN 17 ELSE 7

\* heights on which the four-row blocks and a six-tap column kernel occur
TallHeights == {4, 6}

SmallShapes ==
    {[source_size |-> Size(sw, sh), destination_size |-> Size(dw, dh)] :
        sw \in 1..MaxDim, sh \in 1..MaxDim, dw \in 1..MaxDim, dh \in 1..MaxDim}

TallShapes ==
    {[source_size |-> Size(sw, sh), destination_size |-> Size(dw, dh)] :
        sw \in 1..2, sh \in TallHeights, dw \in 1..2, dh \in TallHeights}

WideShapes(CHANNELS) ==
    {[source_size |-> Size(WideWidth(CHANNELS), h[1]),
      destination_size |-> Size(WideWidth(CHANNELS), h[2])] :
        h \in {<<6, 4>>, <<2, 1>>, <<1, 2>>}}

TinyShapes ==
    {[source_size |-> Size(1, 1), destination_size |-> Size(1, dh)] : dh \in 1..2}

new_call(entry, T, engine, CHANNELS, shape, function, pattern, delta, bit_depth, checks, native) ==
    [entry |-> entry, T |-> T, engine |-> engine, CHANNELS |-> CHANNELS,
     source_size |-> shape.source_size,
     destination_size |-> shape.destination_size,
     bit_depth |-> bit_depth,
     resampling_function |-> function,
     src |-> source_buffer(pattern, shape.source_size.width * CHANNELS
                                      * shape.source_size.height + delta),
     overflow_checks |-> checks,
     native_round |-> native]

Calls8 ==
    {new_call(entry, "u8", "fixed", EntryTable[entry].CHANNELS, shape, function,
              pattern, delta, 8, TRUE, TRUE) :
        entry \in Entries8,
        shape \in SmallShapes \cup TallShapes,
        function \in Functions, pattern \in Patterns, delta \in {-1, 0, 1}}
    \cup
    UNION {{new_call(entry, "u8", "fixed", EntryTable[entry].CHANNELS, shape, function,
                     pattern, 0, 8, TRUE, TRUE) :
              shape \in WideShapes(EntryTable[entry].CHANNELS),
              function \in Functions, pattern \in Patterns} :
           entry \in Entries8}

Calls16 ==
    {new_call(entry, "u16", "float", EntryTable[entry].CHANNELS, shape, function,
              "ramp", delta, bit_depth, TRUE, native) :
        entry \in Entries16,
        shape \in SmallShapes,
        function \in Functions, delta \in {-1, 0},
        bit_depth \in {0, 1, 10, 16, 17}, native \in BOOLEAN}

CallsGeneric ==
    {new_call(entry, "u8", IF entry = "resize_fixed_point" THEN "fixed" ELSE "float",
              CHANNELS, shape, function, "ramp", 0, 8, checks, TRUE) :
        entry \in GenericEntries, CHANNELS \in 0..5, shape \in TinyShapes,
        function \in Functions, checks \in BOOLEAN}

\* the two worked one-row scenarios: [100, 200] widened to 4 samples with
\* Box, and [0, 0, 255, 255] narrowed to 2 samples with Area
ScenarioCalls ==
    {[entry |-> "resize_plane8", T |-> "u8", engine |-> "fixed", CHANNELS |-> 1,
      source_size |-> Size(2, 1), destination_size |-> Size(4, 1),
      bit_depth |-> 8, resampling_function |-> "Box", src |-> <<100, 200>>,
      overflow_checks |-> TRUE, native_round |-> TRUE],
     [entry |-> "resize_plane8", T |-> "u8", engine |-> "fixed", CHANNELS |-> 1,
      source_size |-> Size(4, 1), destination_size |-> Size(2, 1),
      bit_depth |-> 8, resampling_function |-> "Area", src |-> <<0, 0, 255, 255>>,
      overflow_checks |-> TRUE, native_round |-> TRUE]}

InitIdle ==
    /\ working_slice_size = None
    /\ transient = <<>>
    /\ result = None
    /\ prev = None
    /\ passes = <<>>
    /\ plan = None
    /\ sums = None
    /\ narrowed = None
    /\ tasks = {}
    /\ writes = <<>>

Init ==
    /\ call \in Calls8 \cup Calls16 \cup CallsGeneric \cup ScenarioCalls
    /\ pc = "call"
    /\ InitIdle

Next ==
    \/ EntryPoint
    \/ Validate
    \/ EqualSizes
    \/ Nearest
    \/ VerticalPass
    \/ HorizontalPass
    \/ Return
    \/ Recall

Spec == Init /\ [][Next]_vars

(***************************************************************************)
(* Specification of the opening checks on images whose dimension products  *)
(* reach the word size; both build modes are covered.                      *)
(***************************************************************************)
HugeDims == {1, 2, USIZE_MOD \div 4, USIZE_MOD \div 2, USIZE_MOD - 1}

CallsOverflow ==
    {[entry |-> entry, T |-> EntryTable[entry].T, engine |-> EntryTable[entry].engine,
      CHANNELS |-> EntryTable[entry].CHANNELS,
      source_size |-> Size(sw, sh), destination_size |-> Size(dw, 1),
      bit_depth |-> 8, resampling_function |-> "Box",
      src |-> source_buffer("constant", n),
      overflow_checks |-> checks, native_round |-> TRUE] :
        entry \in Entries8 \cup Entries16, sw \in HugeDims, sh \in HugeDims,
        dw \in HugeDims, n \in 0..2, checks \in BOOLEAN}

InitOverflow ==
    /\ call \in CallsOverflow
    /\ pc = "call"
    /\ InitIdle

NextOverflow ==
    \/ EntryPoint
    \/ Validate

SpecOverflow == InitOverflow /\ [][NextOverflow]_vars

(***************************************************************************)
(* Specification of the weight table builder alone: the inputs are drawn   *)
(* from bounded sets and the builder is applied to them.                   *)
(***************************************************************************)
PlanFunctions == {"Box", "Area"}

InitWeights ==
    /\ call \in [function : PlanFunctions, in_size : 1..MaxPlanSize,
                 out_size : 1..MaxPlanSize]
    /\ pc = "weights"
    /\ plan = None
    /\ working_slice_size = None
    /\ transient = <<>>
    /\ result = None
    /\ prev = None
    /\ passes = <<>>
    /\ sums = None
    /\ narrowed = None
    /\ tasks = {}
    /\ writes = <<>>

GenerateWeights ==
    /\ pc = "weights"
    /\ plan' = generate_weights(call.function, call.in_size, call.out_size)
    /\ pc' = "weights_done"
    /\ UNCHANGED <<call, working_slice_size, transient, result, prev, passes,
                   sums, narrowed, tasks, writes>>

NextWeights == GenerateWeights

SpecWeights == InitWeights /\ [][NextWeights]_vars

(***************************************************************************)
(* Specification of the narrowing conversions alone: an accumulated sum    *)
(* around the ends of the sample range is narrowed to a sample.            *)
(***************************************************************************)
NarrowDepths(T) == IF T = "u8" THEN {8} ELSE 0..16

\* sample-level values around both ends of the range of (T, bit_depth)
NarrowSamples(T, bit_depth) ==
    {s \in ((-NarrowOver)..NarrowOver)
            \cup ((max_colors(T, bit_depth) - NarrowOver)
                    ..(max_colors(T, bit_depth) + NarrowOver)) :
        s < Pow2(16)}

InitNarrow ==
    /\ \E conversion \in {"saturate_narrow", "to_mixed"}, T \in {"u8", "u16"},
          native \in BOOLEAN :
         \E bit_depth \in NarrowDepths(T) :
           \E s \in NarrowSamples(T, bit_depth) :
             \/ /\ conversion = "saturate_narrow"
                /\ native
                /\ \E f \in {0, ROUNDING_CONST, Pow2(PRECISION) - 1} :
                     /\ s < Pow2(16) - 1 \/ f = 0
                     /\ sums = [n |-> s * Pow2(PRECISION) + f, d |-> 1]
                /\ call = [conversion |-> conversion, T |-> T,
                           bit_depth |-> bit_depth, native_round |-> native]
             \/ /\ conversion = "to_mixed"
                /\ \E f \in 0..3 : sums = [n |-> 4 * s + f, d |-> 4]
                /\ call = [conversion |-> conversion, T |-> T,
                           bit_depth |-> bit_depth, native_round |-> native]
    /\ pc = "narrow"
    /\ narrowed = None
    /\ plan = None
    /\ working_slice_size = None
    /\ transient = <<>>
    /\ result = None
    /\ prev = None
    /\ passes = <<>>
    /\ tasks = {}
    /\ writes = <<>>

Narrow ==
    /\ pc = "narrow"
    /\ narrowed' = IF call.conversion = "saturate_narrow"
                   THEN saturate_narrow(sums.n, call.T, call.bit_depth)
                   ELSE to_mixed(sums.n, sums.d, call.T, call.bit_depth,
                                 call.native_round)
    /\ pc' = "narrow_done"
    /\ UNCHANGED <<call, working_slice_size, transient, result, prev, passes,
                   plan, sums, tasks, writes>>

NextNarrow == Narrow

SpecNarrow == InitNarrow /\ [][NextNarrow]_vars

(***************************************************************************)
(* Specification of one pass in data-parallel mode (feature "rayon"): the  *)
(* row dispatch hands four-row blocks and then the remaining rows to the   *)
(* workers, the column dispatch one destination row per task; the workers  *)
(* finish in any order.                                                    *)
(***************************************************************************)
\* the tasks of the row dispatch: par_chunks_exact(stride_4), then the
\* remainder in par_chunks_exact(stride); index is the position in its iterator
row_tasks(height) ==
    {[kind |-> "rows4", index |-> b, row |-> 4 * b, rows |-> 4] :
        b \in 0..((height \div 4) - 1)}
    \cup {[kind |-> "row", index |-> r, row |-> 4 * (height \div 4) + r, rows |-> 1] :
            r \in 0..((height % 4) - 1)}

\* the tasks of the column dispatch: par_chunks_exact_mut(dst_stride)
column_tasks(height) ==
    {[kind |-> "column", index |-> j, row |-> j, rows |-> 1] : j \in 0..(height - 1)}

\* the chunk of a task, taken from the start of the iterated slice
task_chunk_in_whole_buffer(task, dst_stride) ==
    [first |-> task.index * task.rows * dst_stride, len |-> task.rows * dst_stride]

\* the destination chunk a task owns; the remaining rows are chunks of the
\* remainder, which starts after the last four-row block
task_chunk(task, dst_stride) ==
    [first |-> task.row * dst_stride, len |-> task.rows * dst_stride]

\* what a task stores in its chunk, from the shared image_store and weights
task_output(task, c, image_store, image_size, fw, destination, destination_size) ==
    LET src_stride == image_size.width * c.CHANNELS
        dst_stride == destination_size.width * c.CHANNELS
        src == SubSeq(image_store, task.row * src_stride + 1,
                      (task.row + task.rows) * src_stride)
    IN  IF task.kind = "rows4"
        THEN IF c.engine = "fixed"
             THEN convolve_row_handler_fixed_point_4(
                      src, src_stride, dst_stride, fw, c.CHANNELS, c.T, c.bit_depth)
             ELSE convolve_row_handler_floating_point_4(
                      src, src_stride, dst_stride, fw, c.CHANNELS, c.T, c.bit_depth,
                      c.native_round)
        ELSE IF task.kind = "row"
        THEN IF c.engine = "fixed"
             THEN convolve_row_handler_fixed_point(src, fw, c.CHANNELS, c.T, c.bit_depth)
             ELSE convolve_row_handler_floating_point(
                      src, fw, c.CHANNELS, c.T, c.bit_depth, c.native_round)
        ELSE apply_tiles(c.engine,
                         IF c.engine = "fixed"
                         THEN column_tiles_fixed_point(c.CHANNELS, destination_size.width)
                         ELSE column_tiles_floating_point(c.CHANNELS, destination_size.width),
                         SubSeq(destination, task.row * dst_stride + 1,
                                (task.row + 1) * dst_stride),
                         image_store, src_stride, fw.rows[task.row + 1], c.CHANNELS,
                         c.T, c.bit_depth, c.native_round)

ParallelCalls ==
    {[engine |-> engine, T |-> "u8", CHANNELS |-> CHANNELS, pass |-> "row",
      source_size |-> Size(sw, h), destination_size |-> Size(dw, h),
      bit_depth |-> 8, resampling_function |-> function,
      src |-> source_buffer("ramp", sw * h * CHANNELS), native_round |-> TRUE] :
        engine \in {"fixed", "float"}, CHANNELS \in 1..2, function \in PlanFunctions,
        sw \in 1..2, dw \in 1..2, h \in 1..(2 * MaxTasks)}
    \cup
    {[engine |-> engine, T |-> "u8", CHANNELS |-> CHANNELS, pass |-> "column",
      source_size |-> Size(w, sh), destination_size |-> Size(w, dh),
      bit_depth |-> 8, resampling_function |-> function,
      src |-> source_buffer("ramp", w * sh * CHANNELS), native_round |-> TRUE] :
        engine \in {"fixed", "float"}, CHANNELS \in 1..2, function \in PlanFunctions,
        w \in 1..2, sh \in 1..3, dh \in 1..MaxTasks}

InitParallel ==
    /\ call \in ParallelCalls
    /\ call.source_size # call.destination_size
    /\ pc = "parallel"
    /\ working_slice_size = call.source_size
    /\ plan = IF call.pass = "row"
              THEN generate_weights(call.resampling_function,
                                    call.source_size.width, call.destination_size.width)
              ELSE generate_weights(call.resampling_function,
                                    call.source_size.height, call.destination_size.height)
    /\ transient = [o \in 1..(call.destination_size.width * call.destination_size.height
                                * call.CHANNELS) |-> 0]
    /\ writes = [o \in 1..(call.destination_size.width * call.destination_size.height
                             * call.CHANNELS) |-> 0]
    /\ tasks = IF call.pass = "row" THEN row_tasks(call.source_size.height)
               ELSE column_tasks(call.destination_size.height)
    /\ result = None
    /\ prev = None
    /\ passes = <<>>
    /\ sums = None
    /\ narrowed = None

\* a worker completes the task: it stores the task's output in the task's chunk
run_task(task) ==
    LET chunk == task_chunk(task, call.destination_size.width * call.CHANNELS)
        output == task_output(task, call, call.src, call.source_size,
                              engine_weights(call, plan), transient,
                              call.destination_size)
        inside(o) == o - 1 >= chunk.first /\ o - 1 < chunk.first + chunk.len
    IN  /\ transient' = [o \in 1..Len(transient) |->
                            IF inside(o) THEN output[o - chunk.first] ELSE transient[o]]
        /\ writes' = [o \in 1..Len(writes) |->
                            IF inside(o) THEN writes[o] + 1 ELSE writes[o]]
        /\ tasks' = tasks \ {task}
        /\ passes' = Append(passes, task)
        /\ UNCHANGED <<call, pc, working_slice_size, result, prev, plan, sums, narrowed>>

\* handle_row_4 on one four-row block
RowBlockTask ==
    /\ pc = "parallel"
    /\ \E task \in tasks :
         /\ task.kind = "rows4"
         /\ run_task(task)

\* handle_row on one remaining row, once the for_each over the blocks is over
RowTask ==
    /\ pc = "parallel"
    /\ \A other \in tasks : other.kind # "rows4"
    /\ \E task \in tasks :
         /\ task.kind = "row"
         /\ run_task(task)

\* handle_column on one destination row
ColumnTask ==
    /\ pc = "parallel"
    /\ \E task \in tasks :
         /\ task.kind = "column"
         /\ run_task(task)

\* the dispatch returns when every task is over
Join ==
    /\ pc = "parallel"
    /\ tasks = {}
    /\ pc' = "joined"
    /\ UNCHANGED <<call, working_slice_size, transient, result, prev, passes, plan,
                   sums, narrowed, tasks, writes>>

NextParallel ==
    \/ RowBlockTask
    \/ RowTask
    \/ ColumnTask
    \/ Join

SpecParallel == InitParallel /\ [][NextParallel]_vars

(***************************************************************************)
(* Alpha scan (alpha_check.rs) and its specification: one scan of a small  *)
(* image with an alpha channel.                                            *)
(***************************************************************************)
\* V::bitxor on non-negative integers
RECURSIVE bitxor(_, _)
bitxor(a, b) ==
    IF a = 0 THEN b
    ELSE IF b = 0 THEN a
    ELSE ((a + b) % 2) + 2 * bitxor(a \div 2, b \div 2)

\* the scan over the complete rows from `row` on: the xor of every alpha
\* sample with `first` is accumulated; a nonzero sum after a row returns true
RECURSIVE scan_rows(_, _, _, _, _, _, _)
scan_rows(store, width, ALPHA_CHANNEL_INDEX, CHANNELS, first, row, row_sums) ==
    IF (row + 1) * width * CHANNELS > Len(store)
    THEN row_sums # 0
    ELSE LET base == row * width * CHANNELS
             after == row_sums
                      + SumSeq([x \in 1..width |->
                                  bitxor(store[base + (x - 1) * CHANNELS
                                               + ALPHA_CHANNEL_INDEX + 1], first)])
         IN  IF after # 0 THEN TRUE
             ELSE scan_rows(store, width, ALPHA_CHANNEL_INDEX, CHANNELS, first,
                            row + 1, after)

\* has_non_constant_alpha::<V, J, ALPHA_CHANNEL_INDEX, CHANNELS>
has_non_constant_alpha(store, width, ALPHA_CHANNEL_INDEX, CHANNELS) ==
    IF store = <<>> THEN FALSE
    ELSE scan_rows(store, width, ALPHA_CHANNEL_INDEX, CHANNELS, store[1], 0, 0)

\* the public scans with their sample type and layout
AlphaScans ==
    [has_non_constant_alpha_rgba8  |-> [T |-> "u8",  ALPHA_CHANNEL_INDEX |-> 3, CHANNELS |-> 4],
     has_non_constant_alpha_la8    |-> [T |-> "u8",  ALPHA_CHANNEL_INDEX |-> 1, CHANNELS |-> 2],
     has_non_constant_alpha_rgba16 |-> [T |-> "u16", ALPHA_CHANNEL_INDEX |-> 3, CHANNELS |-> 4],
     has_non_constant_alpha_la16   |-> [T |-> "u16", ALPHA_CHANNEL_INDEX |-> 1, CHANNELS |-> 2]]

\* sample values of the enumerated images
AlphaValues(T) == {0, 1, IF T = "u8" THEN 255 ELSE 65535}

ColourValues(T) == {0, IF T = "u8" THEN 255 ELSE 65535}

\* the store of an image given the colour and the alpha of every pixel
alpha_image(colours, alphas, CHANNELS) ==
    [o \in 1..(Len(alphas) * CHANNELS) |->
        IF (o - 1) % CHANNELS = CHANNELS - 1
        THEN alphas[((o - 1) \div CHANNELS) + 1]
        ELSE colours[((o - 1) \div CHANNELS) + 1]]

AlphaCalls ==
    UNION {{[entry |-> entry, width |-> width,
             store |-> alpha_image(colours, alphas, AlphaScans[entry].CHANNELS)] :
               colours \in [1..n -> ColourValues(AlphaScans[entry].T)],
               alphas \in [1..n -> AlphaValues(AlphaScans[entry].T)],
               width \in {w \in 1..2 : n % w = 0}} :
           entry \in DOMAIN AlphaScans, n \in 0..MaxAlphaPixels}

InitAlpha ==
    /\ call \in AlphaCalls
    /\ pc = "alpha"
    /\ InitIdle

AlphaScan ==
    /\ pc = "alpha"
    /\ result' = [kind |-> "bool",
                  value |-> has_non_constant_alpha(
                                call.store, call.width,
                                AlphaScans[call.entry].ALPHA_CHANNEL_INDEX,
                                AlphaScans[call.entry].CHANNELS)]
    /\ pc' = "alpha_done"
    /\ UNCHANGED <<call, working_slice_size, transient, prev, passes, plan,
                   sums, narrowed, tasks, writes>>

NextAlpha == AlphaScan

SpecAlpha == InitAlpha /\ [][NextAlpha]_vars

(***************************************************************************)
(* Alpha association of 8-bit RGBA (alpha.rs) and its specification: one   *)
(* call of premultiply_rgba8 or premultiplied_rgba8 on a small buffer.     *)
(***************************************************************************)
\* the value one iteration (alpha, pixel) of make_unpremultiplication_table
\* stores at buf[alpha * 255 + pixel]
table_value(alpha, pixel) ==
    IF alpha = 0 THEN 0
    ELSE LET value == (pixel * 255 + alpha \div 2) \div alpha
         IN  IF value > 255 THEN 255 ELSE value

\* UNPREMULTIPLICATION_TABLE[index]: the loops run alpha and then pixel upwards
\* over 0..255 and the slots alpha * 255 + pixel overlap (pixel 255 of alpha
\* and pixel 0 of alpha + 1), so an entry holds the value of the last
\* iteration that stored to it, and 0 where none did
UNPREMULTIPLICATION_TABLE(index) ==
    LET alpha == index \div 255
        pixel == index % 255
    IN  IF alpha < 256 THEN table_value(alpha, pixel)
        ELSE IF alpha = 256 /\ pixel = 0 THEN table_value(255, 255)
        ELSE 0

\* the table index the association loops use for colour sample c and alpha a
premultiply_index(a, c) == a + c

\* the body of the loops over chunks_exact(4): the three colour samples are
\* looked up, the alpha sample is kept
premultiply_chunk(chunk) ==
    [k \in 1..4 |-> IF k = 4 THEN chunk[4]
                    ELSE UNPREMULTIPLICATION_TABLE(premultiply_index(chunk[4], chunk[k]))]

\* premultiply_rgba8: every complete chunk of 4 samples is rewritten in place,
\* trailing samples are left as they are
premultiply_rgba8(in_place) ==
    [o \in 1..Len(in_place) |->
        IF ((o - 1) \div 4) * 4 + 4 > Len(in_place) THEN in_place[o]
        ELSE premultiply_chunk(SubSeq(in_place, ((o - 1) \div 4) * 4 + 1,
                                      ((o - 1) \div 4) * 4 + 4))[((o - 1) % 4) + 1]]

\* premultiplied_rgba8: a zeroed target of the source's length receives every
\* complete chunk
premultiplied_rgba8(source) ==
    [o \in 1..Len(source) |->
        IF ((o - 1) \div 4) * 4 + 4 > Len(source) THEN 0
        ELSE premultiply_chunk(SubSeq(source, ((o - 1) \div 4) * 4 + 1,
                                      ((o - 1) \div 4) * 4 + 4))[((o - 1) % 4) + 1]]

\* the table indices a call uses
premultiply_indices(store) ==
    {premultiply_index(store[4 * p], store[4 * (p - 1) + k]) :
        p \in 1..(Len(store) \div 4), k \in 1..3}

\* pixels of the enumerated buffers
PremultiplyPixels ==
    {<<255, 255, 255, 255>>, <<10, 20, 30, 255>>, <<255, 128, 1, 128>>,
     <<200, 100, 50, 0>>, <<10, 20, 30, 1>>, <<0, 0, 0, 77>>}

RECURSIVE flatten(_)
flatten(pixels) ==
    IF pixels = <<>> THEN <<>> ELSE Head(pixels) \o flatten(Tail(pixels))

PremultiplyCalls ==
    UNION {{[entry |-> entry, store |-> flatten(pixels) \o tail] :
               pixels \in [1..n -> PremultiplyPixels],
               tail \in {<<>>, <<9>>}} :
           entry \in {"premultiply_rgba8", "premultiplied_rgba8"},
           n \in 1..MaxAlphaPixels}

InitPremultiply ==
    /\ call \in PremultiplyCalls
    /\ pc = "premultiply"
    /\ InitIdle

\* premultiply_rgba8(in_place): the caller's buffer is rewritten
PremultiplyInPlace ==
    /\ pc = "premultiply"
    /\ call.entry = "premultiply_rgba8"
    /\ result' = [kind |-> "buffer",
                  value |-> premultiply_rgba8(call.store),
                  source |-> premultiply_rgba8(call.store),
                  indices |-> premultiply_indices(call.store)]
    /\ pc' = "premultiply_done"
    /\ UNCHANGED <<call, working_slice_size, transient, prev, passes, plan,
                   sums, narrowed, tasks, writes>>

\* premultiplied_rgba8(source): a new buffer is returned, the source is only read
PremultipliedNew ==
    /\ pc = "premultiply"
    /\ call.entry = "premultiplied_rgba8"
    /\ result' = [kind |-> "buffer",
                  value |-> premultiplied_rgba8(call.store),
                  source |-> call.store,
                  indices |-> premultiply_indices(call.store)]
    /\ pc' = "premultiply_done"
    /\ UNCHANGED <<call, working_slice_size, transient, prev, passes, plan,
                   sums, narrowed, tasks, writes>>

NextPremultiply ==
    \/ PremultiplyInPlace
    \/ PremultipliedNew

SpecPremultiply == InitPremultiply /\ [][NextPremultiply]_vars

(***************************************************************************)
(* Rounding divisions of the 16-bit alpha helpers (alpha.rs) and their     *)
(* specification.  A u32 is kept as two 16-bit limbs, value hi * 2^16 + lo,*)
(* so that the whole range of div_by_65535 is representable; a limb hi     *)
(* above 65535 is a value beyond the unsigned 32-bit range.                *)
(***************************************************************************)
u32(hi, lo) == [hi |-> hi + (lo \div 65536), lo |-> lo % 65536]

\* a + b on u32
u32_add(a, b) == u32(a.hi + b.hi, a.lo + b.lo)

\* a >> s on u32, for s in 1..16
u32_shr(a, s) ==
    [hi |-> a.hi \div Pow2(s),
     lo |-> ((a.hi % Pow2(s)) * Pow2(16 - s)) + (a.lo \div Pow2(s))]

\* the body without the rounding term
div_by_shift_truncating(v, s) ==
    LET sum == u32_add(u32_shr(v, s), v)
    IN  [value |-> u32_shr(sum, s).lo, intermediates |-> {v, sum}]

\* the body shared by div_by_1023 (s = 10), div_by_4095 (s = 12) and
\* div_by_65535 (s = 16): round = 1 << (s - 1); v = v + round;
\* (((v >> s) + v) >> s) as u16
div_by_shift(v, s) ==
    LET round == u32(0, Pow2(s - 1))
        biased == u32_add(v, round)
        sum == u32_add(u32_shr(biased, s), biased)
    IN  [value |-> u32_shr(sum, s).lo, intermediates |-> {biased, sum}]

div_by_1023(v) == div_by_shift(v, 10)

div_by_4095(v) == div_by_shift(v, 12)

div_by_65535(v) == div_by_shift(v, 16)

\* the divisions with their divisor
Divisions == [div_by_1023 |-> 1023, div_by_4095 |-> 4095, div_by_65535 |-> 65535]

\* the u32 q * N + r
u32_of(q, N, r) == IF N < 65535 THEN u32(0, q * N + r) ELSE u32(q, r - q)

\* the enumerated arguments are q * N + r for every quotient q and the
\* remainders r around the rounding threshold N / 2, with 0 and N * N
DivRemainders(N) ==
    {0} \cup {((N - 1) \div 2) + d : d \in (1 - DivNeighbourhood)..DivNeighbourhood}

InitDiv ==
    /\ \E entry \in DOMAIN Divisions :
          \E q \in 0..Divisions[entry] :
             \E r \in DivRemainders(Divisions[entry]) :
                /\ q < Divisions[entry] \/ r = 0
                /\ call = [entry |-> entry, q |-> q, r |-> r,
                           v |-> u32_of(q, Divisions[entry], r)]
    /\ pc = "div"
    /\ InitIdle

DivBy ==
    /\ pc = "div"
    /\ result' = CASE call.entry = "div_by_1023"  -> div_by_1023(call.v)
                   [] call.entry = "div_by_4095"  -> div_by_4095(call.v)
                   [] call.entry = "div_by_65535" -> div_by_65535(call.v)
    /\ pc' = "div_done"
    /\ UNCHANGED <<call, working_slice_size, transient, prev, passes, plan,
                   sums, narrowed, tasks, writes>>

NextDiv == DivBy

SpecDiv == InitDiv /\ [][NextDiv]_vars

(***************************************************************************)
(* Specification of one row of the general path for the kernels of the     *)
(* registry whose weight functions are not part of the sources at hand:    *)
(* the evaluations of the kernel over the support are inputs.              *)
(***************************************************************************)
KernelValues == {-1, 0, 1}

InitKernelRow ==
    /\ \E in_size \in 1..MaxKernelPlan, out_size \in 1..MaxKernelPlan :
          \E i \in 0..(out_size - 1) :
             LET size == general_end("Bilinear", i, in_size, out_size)
                         - general_start("Bilinear", i, in_size, out_size)
             IN  \E local_filters \in [1..size -> KernelValues] :
                    call = [function |-> "Bilinear", in_size |-> in_size,
                            out_size |-> out_size, i |-> i,
                            local_filters |-> local_filters]
    /\ pc = "kernel_row"
    /\ InitIdle

\* one iteration of `for (i, bound) in bounds.iter_mut().enumerate()`
KernelRow ==
    /\ pc = "kernel_row"
    /\ plan' = LET start == general_start(call.function, call.i, call.in_size,
                                          call.out_size)
               IN  normalized_row(call.local_filters, start,
                                  general_end(call.function, call.i, call.in_size,
                                              call.out_size) - start,
                                  base_size(call.function, call.in_size, call.out_size))
    /\ pc' = "kernel_row_done"
    /\ UNCHANGED <<call, working_slice_size, transient, result, prev, passes,
                   sums, narrowed, tasks, writes>>

NextKernelRow == KernelRow

SpecKernelRow == InitKernelRow /\ [][NextKernelRow]_vars

(***************************************************************************)
(* resize_image of the application (app/src/image_wrapper.rs) and its      *)
(* specification.  Buffers are kept symbolically: the raw samples of the   *)
(* image, or the empty vector, with the operations applied to them in      *)
(* order.                                                                  *)
(***************************************************************************)
\* the arm of `match image` of every image type: the helpers it calls, how
\* the Linear arm fills working_vec ("always" for `working_vec =
\* source_data.to_vec()`, "if_empty" under `if working_vec.is_empty()`),
\* whether working_vec.resize(0, 0) follows the resize, and the buffer the
\* closing premultiplication is given
ImageArms ==
    [ImageLuma8   |-> [alpha |-> FALSE, unpremultiply |-> "none", copy |-> "always",
                       to_linear |-> "image_to_linear::<1>", resize |-> "resize_plane8",
                       clears |-> TRUE, to_gamma |-> "linear_to_gamma_image::<1>",
                       premultiply |-> "none", premultiplies |-> "none"],
     ImageLumaA8  |-> [alpha |-> TRUE, unpremultiply |-> "unpremultiply_la8", copy |-> "always",
                       to_linear |-> "image_to_linear::<2>",
                       resize |-> "resize_plane8_with_alpha",
                       clears |-> TRUE, to_gamma |-> "linear_to_gamma_image::<2>",
                       premultiply |-> "premultiply_la8", premultiplies |-> "result"],
     ImageRgb8    |-> [alpha |-> FALSE, unpremultiply |-> "none", copy |-> "if_empty",
                       to_linear |-> "image_to_linear::<3>", resize |-> "resize_rgb8",
                       clears |-> TRUE, to_gamma |-> "linear_to_gamma_image::<3>",
                       premultiply |-> "none", premultiplies |-> "none"],
     ImageRgba8   |-> [alpha |-> TRUE, unpremultiply |-> "unpremultiply_rgba8", copy |-> "if_empty",
                       to_linear |-> "image_to_linear::<4>", resize |-> "resize_rgba8",
                       clears |-> TRUE, to_gamma |-> "linear_to_gamma_image::<4>",
                       premultiply |-> "premultiply_rgba8", premultiplies |-> "working_vec"],
     ImageLuma16  |-> [alpha |-> FALSE, unpremultiply |-> "none", copy |-> "always",
                       to_linear |-> "image16_to_linear16::<1>", resize |-> "resize_plane16",
                       clears |-> TRUE, to_gamma |-> "linear16_to_gamma_image16::<1>",
                       premultiply |-> "none", premultiplies |-> "none"],
     ImageLumaA16 |-> [alpha |-> TRUE, unpremultiply |-> "unpremultiply_la16", copy |-> "if_empty",
                       to_linear |-> "image16_to_linear16::<2>",
                       resize |-> "resize_plane16_with_alpha",
                       clears |-> TRUE, to_gamma |-> "linear16_to_gamma_image16::<2>",
                       premultiply |-> "premultiply_rgba16", premultiplies |-> "result"],
     ImageRgb16   |-> [alpha |-> FALSE, unpremultiply |-> "none", copy |-> "always",
                       to_linear |-> "image16_to_linear16::<3>", resize |-> "resize_rgb16",
                       clears |-> TRUE, to_gamma |-> "linear16_to_gamma_image16::<3>",
                       premultiply |-> "none", premultiplies |-> "none"],
     ImageRgba16  |-> [alpha |-> TRUE, unpremultiply |-> "unpremultiply_rgba16", copy |-> "if_empty",
                       to_linear |-> "image16_to_linear16::<4>", resize |-> "resize_rgba16",
                       clears |-> FALSE, to_gamma |-> "linear16_to_gamma_image16::<4>",
                       premultiply |-> "premultiply_rgba16", premultiplies |-> "result"],
     ImageRgb32F  |-> [alpha |-> FALSE, unpremultiply |-> "none", copy |-> "always",
                       to_linear |-> "image_f32_to_linear_f32::<3>", resize |-> "resize_rgb_f32",
                       clears |-> TRUE, to_gamma |-> "linear_f32_to_gamma_image_f32::<3>",
                       premultiply |-> "none", premultiplies |-> "none"],
     ImageRgba32F |-> [alpha |-> TRUE, unpremultiply |-> "unpremultiply_rgba_f32", copy |-> "if_empty",
                       to_linear |-> "image_f32_to_linear_f32::<4>", resize |-> "resize_rgba_f32",
                       clears |-> TRUE, to_gamma |-> "linear_f32_to_gamma_image_f32::<4>",
                       premultiply |-> "premultiply_rgba_f32", premultiplies |-> "result"]]

\* vec![]
empty_vec == [raw |-> "empty", ops |-> <<>>]

\* image.as_raw(), and source_data.to_vec() while source_data is the raw image
as_raw == [raw |-> "image", ops |-> <<>>]

\* an in-place helper applied to a buffer; the empty vector has no samples
applied(op, buffer) ==
    IF buffer.raw = "empty" THEN buffer ELSE [buffer EXCEPT !.ops = Append(@, op)]

\* the slice source_data refers to
source_slice(image) ==
    IF image.source_data = "working_vec" THEN image.working_vec ELSE as_raw

ColorSpaces == {"Gamma", "Linear"}

InitImage ==
    /\ call \in [image : DOMAIN ImageArms, color_space : ColorSpaces,
                 is_alpha_associated : BOOLEAN]
    /\ pc = "image"
    /\ working_slice_size = None
    /\ transient = <<>>
    /\ result = [kind |-> "image", source_data |-> "as_raw", working_vec |-> empty_vec,
                 source |-> empty_vec, result |-> empty_vec]
    /\ prev = None
    /\ passes = <<>>
    /\ plan = None
    /\ sums = None
    /\ narrowed = None
    /\ tasks = {}
    /\ writes = <<>>

\* `if is_alpha_associated { working_vec = source_data.to_vec(); unpremultiply(&mut working_vec) }`
Unassociate ==
    /\ pc = "image"
    /\ result' = IF ImageArms[call.image].alpha /\ call.is_alpha_associated
                 THEN [result EXCEPT !.working_vec =
                          applied(ImageArms[call.image].unpremultiply,
                                  IF result.working_vec.raw = "empty"
                                  THEN source_slice(result) ELSE result.working_vec)]
                 ELSE result
    /\ pc' = "unassociated"
    /\ UNCHANGED <<call, working_slice_size, transient, prev, passes, plan,
                   sums, narrowed, tasks, writes>>

\* the first `match color_space`: the Linear arm fills working_vec, linearizes
\* it and points source_data at it
Linearize ==
    /\ pc = "unassociated"
    /\ result' = IF call.color_space = "Linear"
                 THEN [result EXCEPT
                          !.working_vec =
                              applied(ImageArms[call.image].to_linear,
                                      IF ImageArms[call.image].copy = "always"
                                         \/ result.working_vec.raw = "empty"
                                      THEN source_slice(result) ELSE result.working_vec),
                          !.source_data = "working_vec"]
                 ELSE result
    /\ pc' = "linearized"
    /\ UNCHANGED <<call, working_slice_size, transient, prev, passes, plan,
                   sums, narrowed, tasks, writes>>

\* `let mut result = resize_..(source_data, ..)?; working_vec.resize(0, 0);`
ResizeImage ==
    /\ pc = "linearized"
    /\ result' = [result EXCEPT
                     !.source = source_slice(result),
                     !.result = applied(ImageArms[call.image].resize, source_slice(result)),
                     !.working_vec = IF ImageArms[call.image].clears THEN empty_vec ELSE @]
    /\ pc' = "resized"
    /\ UNCHANGED <<call, working_slice_size, transient, prev, passes, plan,
                   sums, narrowed, tasks, writes>>

\* the second `match color_space`
GammaEncode ==
    /\ pc = "resized"
    /\ result' = IF call.color_space = "Linear"
                 THEN [result EXCEPT !.result = applied(ImageArms[call.image].to_gamma, @)]
                 ELSE result
    /\ pc' = "encoded"
    /\ UNCHANGED <<call, working_slice_size, transient, prev, passes, plan,
                   sums, narrowed, tasks, writes>>

\* `if is_alpha_associated { premultiply(&mut ..) }`, then the image is built
\* from result
Associate ==
    /\ pc = "encoded"
    /\ result' = IF ImageArms[call.image].alpha /\ call.is_alpha_associated
                 THEN IF ImageArms[call.image].premultiplies = "result"
                      THEN [result EXCEPT
                               !.result = applied(ImageArms[call.image].premultiply, @)]
                      ELSE [result EXCEPT
                               !.working_vec = applied(ImageArms[call.image].premultiply, @)]
                 ELSE result
    /\ pc' = "image_done"
    /\ UNCHANGED <<call, working_slice_size, transient, prev, passes, plan,
                   sums, narrowed, tasks, writes>>

NextImage ==
    \/ Unassociate
    \/ Linearize
    \/ ResizeImage
    \/ GammaEncode
    \/ Associate

SpecImage == InitImage /\ [][NextImage]_vars

(***************************************************************************)
(* premultiply_luma_alpha_f32 and premultiplied_luma_alpha_f32 (alpha.rs). *)
(* Samples are small exact values; a chunk of chunks_exact(2) has the      *)
(* indices 0 and 1.                                                        *)
(***************************************************************************)
MaxLumaSamples == 4

LumaSamples == {0, 1, 2}

Done(data) == [kind |-> "ok", data |-> data]

\* chunk[i] of a slice: in bounds below its length
in_bounds(chunk, i) == i < Len(chunk)

OutOfBounds(chunk, i) == Panic("index out of bounds")

\* the body of the loop of premultiply_luma_alpha_f32 on one chunk:
\* `let a = chunk[1]; chunk[0] *= a; chunk[2] = a;`
premultiply_luma_alpha_chunk(chunk) ==
    IF ~in_bounds(chunk, 1) THEN OutOfBounds(chunk, 1)
    ELSE IF ~in_bounds(chunk, 0) THEN OutOfBounds(chunk, 0)
    ELSE IF ~in_bounds(chunk, 2) THEN OutOfBounds(chunk, 2)
    ELSE Done([[chunk EXCEPT ![1] = chunk[1] * chunk[2]] EXCEPT ![3] = chunk[2]])

\* the body of the loop of premultiplied_luma_alpha_f32 on one pair of chunks:
\* `let a = src[2]; dst[0] = src[0] * a; dst[1] = a;`
premultiplied_luma_alpha_chunk(src) ==
    IF ~in_bounds(src, 2) THEN OutOfBounds(src, 2)
    ELSE IF ~in_bounds(src, 0) THEN OutOfBounds(src, 0)
    ELSE Done(<<src[1] * src[3], src[3]>>)

\* the chunks in order; the first failing chunk ends the call
RECURSIVE luma_alpha_chunks(_, _)
luma_alpha_chunks(store, entry) ==
    IF Len(store) < 2
    THEN Done(IF entry = "premultiply_luma_alpha_f32" THEN store
              ELSE [o \in 1..Len(store) |-> 0])
    ELSE LET chunk == IF entry = "premultiply_luma_alpha_f32"
                      THEN premultiply_luma_alpha_chunk(SubSeq(store, 1, 2))
                      ELSE premultiplied_luma_alpha_chunk(SubSeq(store, 1, 2))
         IN  IF chunk.kind = "panic" THEN chunk
             ELSE LET rest == luma_alpha_chunks(SubSeq(store, 3, Len(store)), entry)
                  IN  IF rest.kind = "panic" THEN rest
                      ELSE Done(chunk.data \o rest.data)

premultiply_luma_alpha_f32(in_place) ==
    luma_alpha_chunks(in_place, "premultiply_luma_alpha_f32")

premultiplied_luma_alpha_f32(source) ==
    luma_alpha_chunks(source, "premultiplied_luma_alpha_f32")

InitLumaAlpha ==
    /\ \E n \in 0..MaxLumaSamples :
          \E store \in [1..n -> LumaSamples] :
             \E entry \in {"premultiply_luma_alpha_f32", "premultiplied_luma_alpha_f32"} :
                call = [entry |-> entry, store |-> store]
    /\ pc = "luma_alpha"
    /\ InitIdle

LumaAlphaInPlace ==
    /\ pc = "luma_alpha"
    /\ call.entry = "premultiply_luma_alpha_f32"
    /\ result' = premultiply_luma_alpha_f32(call.store)
    /\ pc' = "luma_alpha_done"
    /\ UNCHANGED <<call, working_slice_size, transient, prev, passes, plan,
                   sums, narrowed, tasks, writes>>

LumaAlphaNew ==
    /\ pc = "luma_alpha"
    /\ call.entry = "premultiplied_luma_alpha_f32"
    /\ result' = premultiplied_luma_alpha_f32(call.store)
    /\ pc' = "luma_alpha_done"
    /\ UNCHANGED <<call, working_slice_size, transient, prev, passes, plan,
                   sums, narrowed, tasks, writes>>

NextLumaAlpha ==
    \/ LumaAlphaInPlace
    \/ LumaAlphaNew

SpecLumaAlpha == InitLumaAlpha /\ [][NextLumaAlpha]_vars

(***************************************************************************)
(* Properties.                                                             *)
(***************************************************************************)

\* C1: a call that returns success returns exactly
\* dst_width * dst_height * C samples, on every path.
OutputLength ==
    pc = "done" /\ result.kind = "Ok" =>
        Len(result.buffer) = call.destination_size.width
                               * call.destination_size.height * call.CHANNELS

\* a Nearest call between different sizes has returned its buffer
OutputLengthNearest ==
    /\ pc = "done"
    /\ result.kind = "Ok"
    /\ call.resampling_function = "Nearest"
    /\ Len(result.buffer) # Len(call.src)
    /\ Len(result.buffer) = call.destination_size.width
                              * call.destination_size.height * call.CHANNELS

\* C2: with equal source and destination sizes a successful call returns the
\* source sample for sample, for every kernel, without running a pass.
IdentityOnEqualSizes ==
    /\ pc = "done"
    /\ result.kind = "Ok"
    /\ call.source_size.width = call.destination_size.width
    /\ call.source_size.height = call.destination_size.height
    => /\ result.buffer = call.src
       /\ passes = <<>>

\* an equal-size Area call on a non-constant image has returned
IdentityReturned ==
    /\ pc = "done"
    /\ result.kind = "Ok"
    /\ call.source_size = call.destination_size
    /\ call.resampling_function = "Area"
    /\ Len(call.src) > 1
    /\ call.src[1] # call.src[2]
    /\ result.buffer = call.src

\* C3: a call (with a valid channel count) whose buffer length differs from
\* width * height * C builds no plan, runs no pass, never holds an output
\* buffer, and ends with an error value.
LengthMismatchRejected ==
    /\ call.CHANNELS \in 1..4
    /\ Len(call.src) # call.source_size.width * call.source_size.height * call.CHANNELS
    => /\ plan = None
       /\ passes = <<>>
       /\ transient = <<>>
       /\ result.kind # "Ok"
       /\ pc = "done" => result.kind = "Err"

\* an equal-size Nearest call with a short buffer has been rejected
LengthMismatchEqualSizes ==
    /\ pc = "done"
    /\ call.source_size = call.destination_size
    /\ call.resampling_function = "Nearest"
    /\ Len(call.src) # call.source_size.width * call.source_size.height * call.CHANNELS
    /\ result = Err("source slice size does not match")

\* C4: a call with a channel count outside 1..4 ends with an error value.
InvalidChannelsIsErr ==
    pc = "done" /\ call.CHANNELS \notin 1..4 => result.kind = "Err"

\* C5: a call whose source or destination stride overflows the word ends
\* with an error value.
StrideOverflowIsErr ==
    /\ pc = "done"
    /\ \/ call.source_size.width * call.CHANNELS >= 2 ^ USIZE_BITS
       \/ call.destination_size.width * call.CHANNELS >= 2 ^ USIZE_BITS
    => result.kind = "Err"

\* C6: a 16-bit entry point called with a bit depth outside 1..16 ends with
\* an error value.
BitDepthOutsideRejected ==
    /\ pc = "done"
    /\ call.entry \in {"resize_rgba16", "resize_rgb16", "resize_plane16"}
    /\ call.bit_depth \notin 1..16
    => result.kind = "Err"

\* C7: a narrowed integer sample lies in [0, 2^b - 1]; a sum that is negative
\* after the shift (or negative, on the floating path) is stored as 0 and one
\* above the maximum as 2^b - 1, in saturate_narrow and in to_mixed alike.
NarrowedSampleInRange ==
    pc = "narrow_done" =>
        LET max == IF call.T = "u8" THEN 255 ELSE 2 ^ call.bit_depth - 1
            below == sums.n < 0
            above == IF call.conversion = "saturate_narrow"
                     THEN sums.n \div 32768 > max
                     ELSE sums.n >= max * sums.d
        IN  /\ narrowed \in 0..max
            /\ below => narrowed = 0
            /\ above => narrowed = max

\* a negative fixed-point sum has been narrowed to 0
NarrowedNegativeSum ==
    /\ pc = "narrow_done"
    /\ call.conversion = "saturate_narrow"
    /\ sums.n < 0
    /\ narrowed = 0

ConstantPreserved ==
    /\ pc = "done"
    /\ result.kind = "Ok"
    /\ call.engine = "fixed"
    /\ call.resampling_function # "Area"
    /\ \A o \in DOMAIN call.src : call.src[o] = call.src[1]
    => \A o \in DOMAIN result.buffer : result.buffer[o] = call.src[1]

\* C9: the fixed-point and the floating result of the same 8-bit call differ
\* by at most 1 at every sample.
FixedFloatWithinOne ==
    /\ pc = "done"
    /\ prev # None
    /\ result.kind = "Ok"
    => \A o \in DOMAIN result.buffer :
          Abs(result.buffer[o] - prev.result.buffer[o]) <= 1

\* C11: in every plan (general and area path) every row has
\* 0 <= start <= start + size <= in_size, 1 <= size <= aligned_size, and
\* zero weights from position size on.
SupportContained ==
    pc = "weights_done" =>
        \A j \in DOMAIN plan.rows :
            LET row == plan.rows[j]
            IN  /\ 0 <= row.start
                /\ row.start + row.size <= call.in_size
                /\ 1 <= row.size
                /\ row.size <= plan.aligned_size
                /\ \A k \in DOMAIN row.weights : k > row.size => row.weights[k] = 0

\* plans of both paths whose last row is cut by the end of the input
SupportCutAtEdge ==
    /\ pc = "weights_done"
    /\ \E j \in DOMAIN plan.rows :
          /\ plan.rows[j].size < plan.aligned_size
          /\ plan.rows[j].start > 0
          /\ plan.rows[j].start + plan.rows[j].size = call.in_size

\* C12: the column pass runs first, from the source into src_width *
\* dst_height * C samples, the row pass then runs on that intermediate; a
\* dimension that does not change has no pass; the returned buffer is the
\* output of the last pass and at most two buffers are filled.
PassOrder ==
    LET C == call.CHANNELS
        src_size == call.source_size
        dst_size == call.destination_size
        mid_size == [width |-> src_size.width, height |-> dst_size.height]
        vertical == [pass |-> "vertical", in_size |-> src_size.height,
                     out_size |-> dst_size.height]
        horizontal == [pass |-> "horizontal", in_size |-> src_size.width,
                       out_size |-> dst_size.width]
        column_first == IF src_size.height # dst_size.height
                        THEN <<vertical>> ELSE <<>>
        row_second == IF src_size.width # dst_size.width
                      THEN <<horizontal>> ELSE <<>>
        column_out ==
            convolve_column(call.engine, call.src, src_size,
                engine_weights(call, generate_weights(call.resampling_function,
                                                      src_size.height, dst_size.height)),
                [o \in 1..(mid_size.width * mid_size.height * C) |-> 0],
                mid_size, C, call.T, call.bit_depth, call.native_round)
        row_out(store) ==
            convolve_row(call.engine, store, mid_size,
                engine_weights(call, generate_weights(call.resampling_function,
                                                      src_size.width, dst_size.width)),
                dst_size, C, call.T, call.bit_depth, call.native_round)
    IN  /\ pc = "vertical_done" =>
            /\ passes = <<vertical>>
            /\ Len(transient) = src_size.width * dst_size.height * C
            /\ transient = column_out
        /\ pc = "horizontal_done" =>
            /\ passes = column_first \o <<horizontal>>
            /\ Len(passes) <= 2
            /\ transient = row_out(IF column_first = <<>> THEN call.src ELSE column_out)
        /\ pc = "done" /\ result.kind = "Ok" /\ passes # <<>> =>
            /\ passes = column_first \o row_second
            /\ result.buffer = transient

\* a call that changed both dimensions has returned after its two passes
PassOrderBoth ==
    /\ pc = "done"
    /\ result.kind = "Ok"
    /\ Len(passes) = 2
    /\ passes[1].pass = "vertical"
    /\ passes[2].pass = "horizontal"
    /\ call.source_size.width > call.destination_size.width
    /\ call.source_size.height < call.destination_size.height

\* C13: a Nearest call between different sizes builds no plan and runs no
\* pass; pixel (x, y) of the result copies the C channels of the source pixel
\* (floor((x + 0.5) sx - 0.5), floor((y + 0.5) sy - 0.5)), each coordinate
\* clamped into [0, src_dim - 1], and every index read is inside the source.
NearestCopiesSourcePixel ==
    /\ pc = "done"
    /\ result.kind = "Ok"
    /\ call.resampling_function = "Nearest"
    /\ call.source_size # call.destination_size
    => LET C == call.CHANNELS
           sw == call.source_size.width
           sh == call.source_size.height
           dw == call.destination_size.width
           dh == call.destination_size.height
           clamp(v, dim) == IF v < 0 THEN 0 ELSE IF v > dim - 1 THEN dim - 1 ELSE v
           \* floor(((2 x + 1) s - d) / (2 d)), for either sign of the numerator
           coordinate(x, s, d) ==
               LET n == (2 * x + 1) * s - d
               IN  clamp(IF n >= 0 THEN n \div (2 * d) ELSE -((-n + 2 * d - 1) \div (2 * d)), s)
       IN  /\ plan = None
           /\ passes = <<>>
           /\ \A x \in 0..(dw - 1), y \in 0..(dh - 1), c \in 0..(C - 1) :
                LET offset == coordinate(y, sh, dh) * sw * C + coordinate(x, sw, dw) * C + c
                IN  /\ offset < Len(call.src)
                    /\ result.buffer[(y * dw + x) * C + c + 1] = call.src[offset + 1]

\* a Nearest down scaling of a non-constant image has returned
NearestDownscaled ==
    /\ pc = "done"
    /\ result.kind = "Ok"
    /\ call.resampling_function = "Nearest"
    /\ call.source_size.width > call.destination_size.width
    /\ call.src[1] # call.src[Len(call.src)]
    /\ plan = None

\* C14: in data-parallel mode no destination sample is written twice; when
\* the workers have all finished, in whatever order, every sample has been
\* written exactly once and the destination equals the sequential result.
ParallelDeterministic ==
    /\ pc \in {"parallel", "joined"} => \A o \in DOMAIN writes : writes[o] <= 1
    /\ pc = "joined" =>
        /\ \A o \in DOMAIN writes : writes[o] = 1
        /\ transient =
             IF call.pass = "row"
             THEN convolve_row(call.engine, call.src, call.source_size,
                               engine_weights(call, plan), call.destination_size,
                               call.CHANNELS, call.T, call.bit_depth, call.native_round)
             ELSE convolve_column(call.engine, call.src, call.source_size,
                                  engine_weights(call, plan),
                                  [o \in 1..Len(transient) |-> 0],
                                  call.destination_size, call.CHANNELS, call.T,
                                  call.bit_depth, call.native_round)

\* a row pass whose remaining rows finished in descending order after its
\* four-row blocks
ParallelOutOfOrder ==
    /\ pc = "joined"
    /\ call.pass = "row"
    /\ Len(passes) = 4
    /\ passes[1].kind = "rows4"
    /\ passes[1].index > passes[2].index
    /\ passes[3].index > passes[4].index

\* C15: resize_plane8 of the 2x1 image [100, 200] to 4x1 with Box returns
\* [100, 100, 200, 200].
BoxUpscaleScenario ==
    /\ pc = "done"
    /\ call.entry = "resize_plane8"
    /\ call.src = <<100, 200>>
    /\ call.source_size = [width |-> 2, height |-> 1]
    /\ call.destination_size = [width |-> 4, height |-> 1]
    /\ call.resampling_function = "Box"
    => result = [kind |-> "Ok", buffer |-> <<100, 100, 200, 200>>]

\* C16: resize_plane8 of the 4x1 image [0, 0, 255, 255] to 2x1 with Area
\* returns [0, 255].
AreaDownscaleScenario ==
    /\ pc = "done"
    /\ call.entry = "resize_plane8"
    /\ call.src = <<0, 0, 255, 255>>
    /\ call.source_size = [width |-> 4, height |-> 1]
    /\ call.destination_size = [width |-> 2, height |-> 1]
    /\ call.resampling_function = "Area"
    => result = [kind |-> "Ok", buffer |-> <<0, 255>>]

\* C17 (as stated): every successful resize call has built exactly two
\* weight tables.
TwoPlansPerCall ==
    pc = "done" /\ result.kind = "Ok" => Len(passes) = 2

\* C17 (amended): generate_weights is called once for each pass that runs,
\* with the sizes of that axis: once for the height if the heights differ,
\* then once for the width if the widths differ, and never for equal sizes,
\* for Nearest or for a rejected call.
PlanPerChangedAxis ==
    LET src_size == call.source_size
        dst_size == call.destination_size
        resampled == /\ src_size # dst_size
                     /\ call.resampling_function # "Nearest"
        due == (IF resampled /\ src_size.height # dst_size.height
                THEN <<[pass |-> "vertical", in_size |-> src_size.height,
                        out_size |-> dst_size.height]>>
                ELSE <<>>)
               \o (IF resampled /\ src_size.width # dst_size.width
                   THEN <<[pass |-> "horizontal", in_size |-> src_size.width,
                           out_size |-> dst_size.width]>>
                   ELSE <<>>)
    IN  /\ Len(passes) <= Len(due)
        /\ \A k \in DOMAIN passes : passes[k] = due[k]
        /\ passes # <<>> =>
              plan = generate_weights(call.resampling_function,
                                      passes[Len(passes)].in_size,
                                      passes[Len(passes)].out_size)
        /\ pc = "done" =>
              IF result.kind = "Ok" THEN passes = due ELSE passes = <<>>

\* a successful call that changed only its height, with its single plan
PlanForHeightOnly ==
    /\ pc = "done"
    /\ result.kind = "Ok"
    /\ Len(passes) = 1
    /\ passes[1].pass = "vertical"
    /\ plan = generate_weights(call.resampling_function, call.source_size.height,
                               call.destination_size.height)

\* C18: once validation has accepted a call nothing fails: the call ends
\* with Ok, every source row or pixel a handler reads lies in the support
\* [start, start + size) and inside the source buffer, and every tile and
\* pixel written lies inside the destination buffer.
EnginesStayInside ==
    LET C == call.CHANNELS
        last == passes[Len(passes)]
    IN  /\ pc = "done" /\ working_slice_size # None => result.kind = "Ok"
        /\ pc = "vertical_done" =>
             LET width == working_slice_size.width
                 stride == width * C
                 tiles == IF call.engine = "fixed"
                          THEN column_tiles_fixed_point(C, width)
                          ELSE column_tiles_floating_point(C, width)
             IN  /\ Len(transient) = stride * last.out_size
                 /\ \A j \in 1..last.out_size, t \in DOMAIN tiles :
                      LET bounds == plan.rows[j]
                          first == tile_first(tiles[t], C)
                          samples == tile_samples(tiles[t], C)
                      IN  /\ first + samples <= stride
                          /\ \A py \in column_rows_read(call.engine, tiles[t], bounds) :
                               /\ py >= bounds.start
                               /\ py < bounds.start + bounds.size
                               /\ stride * py + first + samples <= Len(call.src)
        /\ pc = "horizontal_done" =>
             LET height == working_slice_size.height
                 src_stride == last.in_size * C
                 dst_stride == last.out_size * C
             IN  /\ Len(transient) = dst_stride * height
                 /\ \A i \in 1..last.out_size, row \in 0..(height - 1) :
                      LET bounds == plan.rows[i]
                          rows == IF row < 4 * (height \div 4) THEN 4 ELSE 1
                      IN  /\ row * dst_stride + i * C <= Len(transient)
                          /\ \A px \in row_pixels_read(call.engine, rows, bounds) :
                               /\ px >= bounds.start
                               /\ px < bounds.start + bounds.size
                               /\ row * src_stride + px * C + C <= src_stride * height

\* a column pass has run direct-buffer tiles with a six-row support
DirectBufferTilesRan ==
    /\ pc = "vertical_done"
    /\ call.engine = "fixed"
    /\ call.CHANNELS = 2
    /\ working_slice_size.width = 17
    /\ plan.kernel_size = 6

\* C19: the alpha scans return true exactly when two pixels of the image
\* differ in their alpha sample (false for an empty store).
AlphaScanExact ==
    pc = "alpha_done" =>
        LET CHANNELS == IF call.entry \in {"has_non_constant_alpha_rgba8",
                                           "has_non_constant_alpha_rgba16"}
                        THEN 4 ELSE 2
            pixels == 1..(Len(call.store) \div CHANNELS)
            alpha(p) == call.store[p * CHANNELS]
        IN  result.value = (\E p \in pixels, q \in pixels : alpha(p) # alpha(q))

\* C20: premultiply_rgba8 replaces every colour sample c of a pixel with alpha
\* a by c * a / 255 rounded to the nearest integer and keeps the alpha sample,
\* every table index is inside the 65536 entries, and premultiplied_rgba8
\* returns the same values in a new buffer with its source unchanged.
PremultiplyRounds ==
    pc = "premultiply_done" =>
        /\ \A p \in 1..(Len(call.store) \div 4) :
              /\ \A k \in 1..3 :
                    result.value[4 * (p - 1) + k]
                        = (call.store[4 * (p - 1) + k] * call.store[4 * p] * 2 + 255)
                          \div 510
              /\ result.value[4 * p] = call.store[4 * p]
        /\ \A index \in result.indices : index \in 0..65535
        /\ call.entry = "premultiplied_rgba8" => result.source = call.store

\* C21: for N in {1023, 4095, 65535} and every v in 0..N*N, div_by_N(v) is
\* v / N rounded to the nearest integer, and no intermediate value exceeds the
\* unsigned 32-bit range.
DivByRoundsToNearest ==
    pc = "div_done" =>
        LET N == Divisions[call.entry]
        IN  /\ result.value = call.q + ((2 * call.r + N) \div (2 * N))
            /\ \A w \in result.intermediates : w.hi <= 65535

\* the largest argument of the widest division, and an argument just above a
\* rounding threshold
DivByLargestArgument ==
    /\ pc = "div_done"
    /\ call.entry = "div_by_65535"
    /\ call.v = [hi |-> 65534, lo |-> 1]
    /\ result.value = 65535

\* C22: after the column pass of the fixed-point engine, for every channel
\* count, width and tile variant, sample x of destination row j is the
\* narrowed sum over k in [0, size) of weight k of row j times the source
\* sample in row start + k at offset x (the sum taken from either initial
\* value of the accumulator, 0 or the rounding constant).
ColumnWeightMeetsRow ==
    (pc = "vertical_done" /\ call.engine = "fixed") =>
        LET stride == call.source_size.width * call.CHANNELS
            fw == numerical_approximation_i16(plan)
        IN  \A o \in 1..Len(transient) :
               LET bounds == fw.rows[((o - 1) \div stride) + 1]
                   x == (o - 1) % stride
                   products == dot(bounds.weights, 0, call.src,
                                   stride * bounds.start + x, stride, bounds.size)
               IN  transient[o] \in {saturate_narrow(bias + products, call.T, call.bit_depth) :
                                        bias \in {0, ROUNDING_CONST}}

\* C23: every sample stored by the fixed-point engine, by the row handlers as
\* by every column tile, is the sum of its weighted source samples plus the
\* rounding bias 2^(PRECISION - 1), shifted right by PRECISION and clamped
\* (for a column tile the sum being that of either pairing of the weights
\* after the first with the source rows, from start + 1 or from start).
AccumulatorsStartAtBias ==
    LET fw == numerical_approximation_i16(plan)
        src_stride == call.source_size.width * call.CHANNELS
        dst_stride == call.destination_size.width * call.CHANNELS
    IN  /\ (pc = "vertical_done" /\ call.engine = "fixed") =>
              \A o \in 1..Len(transient) :
                 LET bounds == fw.rows[((o - 1) \div src_stride) + 1]
                     x == (o - 1) % src_stride
                     first == src_stride * bounds.start + x
                     aligned == dot(bounds.weights, 0, call.src, first, src_stride,
                                    bounds.size)
                     shifted == bounds.weights[1] * call.src[first + 1]
                                + dot(bounds.weights, 1, call.src, first, src_stride,
                                      bounds.size - 1)
                 IN  transient[o] \in
                        {saturate_narrow(ROUNDING_CONST + products, call.T, call.bit_depth) :
                            products \in {aligned, shifted}}
        /\ (pc = "horizontal_done" /\ call.engine = "fixed" /\ Len(passes) = 1) =>
              \A o \in 1..Len(transient) :
                 LET row == (o - 1) \div dst_stride
                     bounds == fw.rows[(((o - 1) % dst_stride) \div call.CHANNELS) + 1]
                     c == (o - 1) % call.CHANNELS
                 IN  transient[o]
                        = saturate_narrow(
                              ROUNDING_CONST
                                + dot(bounds.weights, 0, call.src,
                                      src_stride * row + bounds.start * call.CHANNELS + c,
                                      call.CHANNELS, bounds.size),
                              call.T, call.bit_depth)

\* C24: in both engines every row the row pass writes, whether it falls in a
\* four-row block or in the remainder, holds exactly the values the
\* single-row handler writes for that source row.
FourRowsAsSingleRows ==
    (pc = "horizontal_done" /\ Len(passes) = 1) =>
        LET src_stride == call.source_size.width * call.CHANNELS
            dst_stride == call.destination_size.width * call.CHANNELS
            fw == engine_weights(call, plan)
        IN  \A r \in 1..call.destination_size.height :
               LET src == SubSeq(call.src, (r - 1) * src_stride + 1, r * src_stride)
               IN  SubSeq(transient, (r - 1) * dst_stride + 1, r * dst_stride)
                      = IF call.engine = "fixed"
                        THEN convolve_row_handler_fixed_point(
                                 src, fw, call.CHANNELS, call.T, call.bit_depth)
                        ELSE convolve_row_handler_floating_point(
                                 src, fw, call.CHANNELS, call.T, call.bit_depth,
                                 call.native_round)

\* C25: on the general path an output index whose raw weights sum to 0 gets
\* the single weight 1 at its first tap and 0 at every other tap, as on the
\* area path, so that no row of a plan is all zero.
ZeroSumGetsUnitWeight ==
    (pc = "kernel_row_done" /\ SumSeq(call.local_filters) = 0) =>
        /\ plan.weights[1] = plan.den
        /\ \A k \in DOMAIN plan.weights : k > 1 => plan.weights[k] = 0

\* C26: on the general path kernel_size = aligned_size is the support
\* base = 2 * min_kernel_size * max(in_size / out_size, 1) rounded up, and for
\* every output i, start = floor(max(center - base / 2, 0)) and
\* end = min(ceil(center + base / 2), in_size, start + kernel_size) with
\* center = min((i + 0.5) * in_size / out_size, in_size) and base unrounded.
KernelSizeRoundedUp ==
    (pc = "weights_done" /\ ~plan.area) =>
        LET in_size == call.in_size
            out_size == call.out_size
            \* base over the denominator out_size, center over 2 * out_size
            base_n == 2 * min_kernel_size(call.function) * Max(in_size, out_size)
            kernel_size == Ceil(base_n, out_size)
        IN  /\ plan.kernel_size = kernel_size
            /\ plan.aligned_size = kernel_size
            /\ \A j \in DOMAIN plan.rows :
                  LET center_n == Min((2 * (j - 1) + 1) * in_size, 2 * out_size * in_size)
                      start == Floor(Max(center_n - base_n, 0), 2 * out_size)
                      end == Min(Min(Ceil(center_n + base_n, 2 * out_size), in_size),
                                 start + kernel_size)
                  IN  /\ plan.rows[j].start = start
                      /\ plan.rows[j].start + plan.rows[j].size = end

\* C27: on the area path, for every output index i, sx = floor(i * scale),
\* fx = (i + 1) - (sx + 1) / scale, dx = max(fx - floor(fx), 0), the weights
\* before normalization are (1 - dx, dx) over [start, start + size) with
\* start = sx and size in {1, 2}, and kernel_size = 2.
AreaFractionOfAnySign ==
    (pc = "weights_done" /\ plan.area) =>
        /\ plan.kernel_size = 2
        /\ \A j \in DOMAIN plan.rows :
              LET sx == Floor((j - 1) * call.in_size, call.out_size)
                  fx == j * call.in_size - (sx + 1) * call.out_size  \* over in_size
                  dx == Max(fx % call.in_size, 0)
                  row == plan.rows[j]
              IN  /\ row.start = sx
                  /\ row.size \in {1, 2}
                  /\ row.weights[1] = call.in_size - dx
                  /\ row.size = 2 => row.weights[2] = dx

\* C27 as the builder computes it: dx = 0 when fx <= 0 and fx - floor(fx)
\* otherwise; sx, fx, the weights (1 - dx, dx), start = sx, size in {1, 2} and
\* kernel_size = 2 are as stated.
AreaFractionOfPositive ==
    (pc = "weights_done" /\ plan.area) =>
        /\ plan.kernel_size = 2
        /\ \A j \in DOMAIN plan.rows :
              LET sx == Floor((j - 1) * call.in_size, call.out_size)
                  fx == j * call.in_size - (sx + 1) * call.out_size  \* over in_size
                  dx == IF fx <= 0 THEN 0 ELSE fx % call.in_size
                  row == plan.rows[j]
              IN  /\ row.start = sx
                  /\ row.size \in {1, 2}
                  /\ row.weights[1] = call.in_size - dx
                  /\ row.size = 2 => row.weights[2] = dx

\* an area plan with a row whose fx is negative and not an integer, and a
\* two-tap row with a positive fraction
AreaNegativeFraction ==
    /\ pc = "weights_done"
    /\ plan.area
    /\ \E j \in DOMAIN plan.rows :
          LET sx == Floor((j - 1) * call.in_size, call.out_size)
              fx == j * call.in_size - (sx + 1) * call.out_size
          IN  /\ fx < 0
              /\ fx % call.in_size # 0
              /\ plan.rows[j].weights[1] = call.in_size
    /\ \E j \in DOMAIN plan.rows :
          /\ plan.rows[j].size = 2
          /\ plan.rows[j].weights[2] > 0

AssociatedStagesInOrder ==
    (pc = "image_done" /\ ImageArms[call.image].alpha /\ call.is_alpha_associated) =>
        LET arm == ImageArms[call.image]
            helper == [ImageLumaA8 |-> "premultiply_la8",
                       ImageRgba8 |-> "premultiply_rgba8",
                       ImageLumaA16 |-> "premultiply_la16",
                       ImageRgba16 |-> "premultiply_rgba16",
                       ImageRgba32F |-> "premultiply_rgba_f32"]
            linear == call.color_space = "Linear"
            before == <<arm.unpremultiply>> \o (IF linear THEN <<arm.to_linear>> ELSE <<>>)
        IN  /\ result.source = [raw |-> "image", ops |-> before]
            /\ result.result
                  = [raw |-> "image",
                     ops |-> before \o <<arm.resize>>
                             \o (IF linear THEN <<arm.to_gamma>> ELSE <<>>)
                             \o <<helper[call.image]>>]

\* C30: premultiply_luma_alpha_f32 and premultiplied_luma_alpha_f32 complete
\* without failure for every buffer, and in each 2-sample pixel the luma
\* sample becomes luma times the alpha of sample 1 while the alpha sample
\* keeps its value.
LumaAlphaCompletes ==
    pc = "luma_alpha_done" =>
        /\ result.kind = "ok"
        /\ Len(result.data) = Len(call.store)
        /\ \A p \in 1..(Len(call.store) \div 2) :
              /\ result.data[2 * p - 1] = call.store[2 * p - 1] * call.store[2 * p]
              /\ result.data[2 * p] = call.store[2 * p]

====
